---- MODULE Spec2Model ----
(***************************************************************************)
(* Model of the Nextiva missed-call collector, v3.6 engine                 *)
(* (src/unnamed/part_000, lines 1539-3180): real-time monitoring,          *)
(* answer reconciliation, delivery to the sheet endpoint, bounded state    *)
(* store and bulk collection.                                              *)
(*                                                                         *)
(* Time is counted in minutes since midnight of the current day.  Every    *)
(* timestamp the engine stores comes from parseDateTime, which sets        *)
(* seconds and milliseconds to 0, so whole minutes lose nothing; the clock *)
(* itself (Date.now()) is compared with whole-minute values only, and      *)
(* t > now - h has the same truth value for now and for now rounded down   *)
(* to the minute.                                                          *)
(***************************************************************************)
EXTENDS Integers, Sequences, FiniteSets, TLC

VARIABLES
    now,                    \* Date.now(), minutes since midnight
    topRow,                 \* the first call card of the live view
    isRealTimeMode,         \* NextivaCollector fields (constructor, 1655-1687)
    isCollecting,
    allRecords,
    processedIndexes,
    recentCalls,
    sentRecords,
    processedAnswers,
    pendingRequests,
    monitorStartTime,
    realTimeMissedCount,
    realTimeObserver,
    realTimeInterval,
    topRecordCheckInterval,
    lastTopRecord,
    storage,                \* localStorage item 'nextiva_missed_calls'
    requests,               \* every GM_xmlhttpRequest issued, with its fate
    domQueries,             \* performanceMonitor.metrics.domQueries
    session,                \* number of startRealTimeMode calls so far
    setItemCalls,           \* localStorage.setItem calls made in the last step
    loadError,              \* field at which the last step's loadFromLocalStorage threw
    lastRows,               \* the cards the last step's collectRecords went through
    awaiting,               \* the calls of checkForNewCalls suspended at an await
    caught,                 \* where the last step's checkForNewCalls caught an exception
    collectLoops,           \* autoScrollAndCollect loops suspended in a delay
    collectPasses,          \* passes of those loops so far
    realtimeButtonDisabled, \* realtimeButton.disabled
    scroll,                 \* the scroll container of the list and the locals of a v2.2 loop
    sheetDate,              \* a Date on its way through formatDateTimeForSheet and parseAnyDateTime
    limits                  \* how far this run is explored (never changes)

vars == <<now, topRow, isRealTimeMode, isCollecting, allRecords, processedIndexes,
          recentCalls, sentRecords, processedAnswers, pendingRequests,
          monitorStartTime, realTimeMissedCount, realTimeObserver,
          realTimeInterval, topRecordCheckInterval, lastTopRecord, storage,
          requests, domQueries, session, setItemCalls, loadError, lastRows,
          awaiting, caught, collectLoops,
          collectPasses,
          realtimeButtonDisabled, scroll, sheetDate, limits>>

-----------------------------------------------------------------------------
(* Bounds of the exploration *)

MaxObs == 2             \* checkForNewCalls invocations explored per run
MaxStarts == 2          \* startRealTimeMode calls explored per run
MaxObsLong == 3         \* checkForNewCalls invocations of a longer session
MaxPasses == 2          \* collectRecords passes explored per run
MaxWriteFailures == 2   \* consecutive localStorage.setItem failures explored
MaxExtraRows == 1       \* rows of a collected page beyond a cap of the state store
MaxCards == 3           \* cards of the list a v2.2 collection scrolls through
ViewCards == 2          \* cards the list renders at a scroll position
MaxDay == 1             \* days of the Dates formatted and parsed back

(* Program constants, in minutes *)

OneHour == 60
TwoHours == 120
SixHours == 360
MinutesPerDay == 1440

MaxUpdatesPerAnswer == 3
WindowCap == 10
CleanupWindowCap == 5
CleanupIndexCap == 500
CleanupRecordCap == 200
SaveRecordCap == 100
SaveIndexCap == 300
SaveSentCap == 50
SaveAnswerCap == 50
UnchangedLimit == 3     \* unchangedScrollCount at which autoScrollAndCollect breaks
ScrollStep == 1         \* one scrollTo of the loop, in cards

NoDate == -1            \* null returned by parseDateTime / unset Date field
NoRow == [index |-> "none"]
NoStorage == [present |-> FALSE]
NoScroll == [list |-> <<>>, phase |-> "idle", scrollTop |-> 0, lastScrollTop |-> 0,
             unchangedScrollCount |-> 0]   \* the list not scrolled by a v2.2 loop
NoAnswerTime == [day |-> 0, hh |-> 0, mm |-> 0, ampm |-> ""]   \* no answerTime field
NoSheetDate == [stage |-> "none", date |-> NoDate, text |-> NoAnswerTime, parsed |-> NoDate]

-----------------------------------------------------------------------------
(* Inputs: what the live view can show *)

\* Clock readings explored: 2:00 PM, 2:15, 2:40, 3:15 and 9:30 PM
ClockValues == {840, 855, 880, 915, 1290}

\* The clock readings at which calls come in: 2:15, 2:40, 3:00 and 3:15 PM
CallTimes == {855, 880, 900, 915}

\* A timestamp text no strategy of parseDateTime resolves
BadTimeText == [form |-> "bad", h |-> 0, m |-> 0, period |-> ""]

\* The view's text for a call at minute t of today: "H:MM AM|PM"
ViewTimeText(t) ==
    LET hours == (t % 1440) \div 60
    IN  [ form |-> "time",
          h |-> IF hours = 0 THEN 12 ELSE IF hours > 12 THEN hours - 12 ELSE hours,
          m |-> t % 60,
          period |-> IF hours >= 12 THEN "PM" ELSE "AM" ]

\* The view's text for a call at minute t of the day before: "Yesterday H:MM AM|PM"
YesterdayText(t) == [ViewTimeText(t) EXCEPT !.form = "yesterday"]

\* The forms of timestamp text a run shows on its cards: times of today only,
\* or also "Yesterday H:MM" and texts no strategy resolves
PlainTexts == {"time"}
AllTexts == {"time", "yesterday", "bad"}

\* localStorage.setItem throws on none or on the first of the writes of a handler
WriteFailures == {0, 1}

SenderTexts == {"(555)123-4567", "(555)987-6543"}

RowTexts == {"Missed call", "Incoming call answered by X", "Outgoing call"}

\* The largest data-index a collected page shows
LargestIndex == CleanupIndexCap + MaxExtraRows

TopIndexes == {"0"}
LowerIndexes == {"1"}
CardIndexes == <<"0", "1", "2", "3", "4">>   \* data-index of the cards of a list, top down

-----------------------------------------------------------------------------
(* Generic sequence helpers (Array.prototype.slice / filter / some) *)

Min2(a, b) == IF a < b THEN a ELSE b

\* seq.slice(-n)
LastN(seq, n) ==
    IF Len(seq) <= n THEN seq ELSE SubSeq(seq, Len(seq) - n + 1, Len(seq))

\* seq.slice(0, n)
FirstN(seq, n) == SubSeq(seq, 1, Min2(n, Len(seq)))

Range(seq) == {seq[i] : i \in 1..Len(seq)}

\* Set.prototype.add on an insertion-ordered Set
SetAdd(seq, x) == IF x \in Range(seq) THEN seq ELSE Append(seq, x)

-----------------------------------------------------------------------------
(* Event classifier *)

\* the 10 digits the phone pattern captures in a text, "" when it has none
PhoneDigits(text) ==
    CASE text = "(555)123-4567" -> "5551234567"
      [] text = "(555)987-6543" -> "5559876543"
      [] OTHER -> ""

\* `(${m[1]})${m[2]}-${m[3]}`
FormatPhone(digits) ==
    CASE digits = "5551234567" -> "(555)123-4567"
      [] digits = "5559876543" -> "(555)987-6543"
      [] OTHER -> digits

extractPhoneNumber(contact) ==
    IF PhoneDigits(contact) # "" THEN PhoneDigits(contact) ELSE contact

\* contactName: "" stands for null
separateContactInfo(contact) ==
    IF PhoneDigits(contact) # ""
    THEN [displayNumber |-> FormatPhone(PhoneDigits(contact)), contactName |-> ""]
    ELSE [displayNumber |-> contact, contactName |-> contact]

isMissedCallText(text) == text = "Missed call"

isAnsweredCallText(text) == text \in {"Incoming call answered by X", "Incoming call"}

Hours24(text) ==
    IF text.period = "PM" /\ text.h # 12 THEN text.h + 12
    ELSE IF text.period = "AM" /\ text.h = 12 THEN 0
    ELSE text.h

\* d.getDate() === now.getDate() && d.getMonth() === ... && d.getFullYear() === ...
SameDay(d, clock) == d \div MinutesPerDay = clock \div MinutesPerDay

\* parseDateTime(text, lowerRowDates): "H:MM [AM/PM]" is today at H:MM, seconds
\* 0; "Yesterday H:MM [AM/PM]" is the day before at H:MM, or today at H:MM when
\* some date of lowerRowDates is of today; anything else here is null (the
\* texts explored never read "Yesterday 11:59 PM", whose minute is NoDate)
parseDateTimeWith(text, lowerRowDates, clock) ==
    LET today == clock - (clock % MinutesPerDay)
        minute == Hours24(text) * 60 + text.m
    IN  CASE text.form = "time" -> today + minute
          [] text.form = "yesterday" ->
                IF \E i \in 1..Len(lowerRowDates) : SameDay(lowerRowDates[i], clock)
                THEN today + minute
                ELSE today - MinutesPerDay + minute
          [] OTHER -> NoDate

\* parseDateTime(text), lowerRowDates = []
parseDateTime(text, clock) == parseDateTimeWith(text, <<>>, clock)

\* the 12-hour to 24-hour step of parseAnyDateTime, on the hour and the period
\* its MM/DD/YYYY pattern has matched
SheetHour24(text) ==
    IF text.ampm = "PM" /\ text.hh # 12 THEN text.hh + 12
    ELSE IF text.ampm = "AM" /\ text.hh = 12 THEN 0
    ELSE text.hh

\* parseAnyDateTime whose PM adds 12 hours to 12 o'clock as well
parseAnyDateTimeNoonAdds(text) ==
    IF "day" \notin DOMAIN text THEN NoDate
    ELSE text.day * MinutesPerDay
            + (IF text.ampm = "PM" THEN text.hh + 12 ELSE SheetHour24(text)) * 60 + text.mm

\* parseAnyDateTime: a text "MM/DD/YYYY hh:mm AM|PM" is that day at that time,
\* seconds 0; the view's texts explored here match none of its patterns and
\* Date.parse does not read them
parseAnyDateTime(text) ==
    IF "day" \notin DOMAIN text THEN NoDate
    ELSE text.day * MinutesPerDay + SheetHour24(text) * 60 + text.mm

\* "MM/DD/YYYY hh:mm AM|PM"; the date part is the day number
formatDateTimeForSheet(date) ==
    LET hours == (date % MinutesPerDay) \div 60
    IN  [ day     |-> date \div MinutesPerDay,
          hh      |-> IF hours = 0 THEN 12 ELSE IF hours > 12 THEN hours - 12 ELSE hours,
          mm      |-> date % 60,
          ampm    |-> IF hours >= 12 THEN "PM" ELSE "AM" ]

PhoneKeys == {extractPhoneNumber(separateContactInfo(s).displayNumber) : s \in SenderTexts}

-----------------------------------------------------------------------------
(* Recent-call window *)


\* isActualMissedCall that looks only at the hour before the timestamp
isActualMissedCallBefore(calls, timestamp) ==
    IF \E i \in 1..Len(calls) :
          /\ calls[i].time > timestamp - OneHour
          /\ calls[i].time <= timestamp
          /\ calls[i].isAnswered
    THEN "No" ELSE "Yes"

\* isActualMissedCall that counts every call of the window, answered or not
isActualMissedCallAnyCall(calls, timestamp) ==
    IF \E i \in 1..Len(calls) :
          /\ calls[i].time > timestamp - OneHour
          /\ calls[i].time < timestamp + OneHour
    THEN "No" ELSE "Yes"

isActualMissedCall(calls, timestamp) ==
    IF \E i \in 1..Len(calls) :
          /\ calls[i].time > timestamp - OneHour
          /\ calls[i].time < timestamp + OneHour
          /\ calls[i].isAnswered
    THEN "No" ELSE "Yes"


\* InHorizon that lets every entry pass
InHorizonAlways(call, clock) == TRUE

InHorizon(call, clock) == call.time > clock - TwoHours


\* updateRecentCalls that keeps the oldest entries, slice(0, 10), when it truncates
updateRecentCallsOldest(rc, phoneNumber, timestamp, isMissed, isAnswered, clock) ==
    LET calls == Append(rc[phoneNumber],
                        [time |-> timestamp, isMissed |-> isMissed, isAnswered |-> isAnswered])
        kept == SelectSeq(calls, LAMBDA c : InHorizon(c, clock))
    IN  [rc EXCEPT ![phoneNumber] = FirstN(kept, WindowCap)]

updateRecentCalls(rc, phoneNumber, timestamp, isMissed, isAnswered, clock) ==
    LET calls == Append(rc[phoneNumber],
                        [time |-> timestamp, isMissed |-> isMissed, isAnswered |-> isAnswered])
        kept == SelectSeq(calls, LAMBDA c : InHorizon(c, clock))
    IN  [rc EXCEPT ![phoneNumber] = LastN(kept, WindowCap)]

-----------------------------------------------------------------------------
(* The collector as one record, so that a handler can call another *)

Collector ==
    [ isRealTimeMode |-> isRealTimeMode, isCollecting |-> isCollecting,
      allRecords |-> allRecords, processedIndexes |-> processedIndexes,
      recentCalls |-> recentCalls, sentRecords |-> sentRecords,
      processedAnswers |-> processedAnswers, pendingRequests |-> pendingRequests,
      monitorStartTime |-> monitorStartTime,
      realTimeMissedCount |-> realTimeMissedCount,
      realTimeObserver |-> realTimeObserver, realTimeInterval |-> realTimeInterval,
      topRecordCheckInterval |-> topRecordCheckInterval,
      lastTopRecord |-> lastTopRecord, storage |-> storage,
      requests |-> requests, domQueries |-> domQueries, session |-> session,
      setItemCalls |-> 0, loadError |-> "", lastRows |-> <<>>,
      awaiting |-> awaiting, caught |-> "" ]

Commit(c) ==
    /\ isRealTimeMode' = c.isRealTimeMode
    /\ isCollecting' = c.isCollecting
    /\ allRecords' = c.allRecords
    /\ processedIndexes' = c.processedIndexes
    /\ recentCalls' = c.recentCalls
    /\ sentRecords' = c.sentRecords
    /\ processedAnswers' = c.processedAnswers
    /\ pendingRequests' = c.pendingRequests
    /\ monitorStartTime' = c.monitorStartTime
    /\ realTimeMissedCount' = c.realTimeMissedCount
    /\ realTimeObserver' = c.realTimeObserver
    /\ realTimeInterval' = c.realTimeInterval
    /\ topRecordCheckInterval' = c.topRecordCheckInterval
    /\ lastTopRecord' = c.lastTopRecord
    /\ storage' = c.storage
    /\ requests' = c.requests
    /\ domQueries' = c.domQueries
    /\ session' = c.session
    /\ setItemCalls' = c.setItemCalls
    /\ loadError' = c.loadError
    /\ lastRows' = c.lastRows
    /\ awaiting' = c.awaiting
    /\ caught' = c.caught

CallRecord(timestamp, contact, dataIndex) ==
    [ timestamp |-> timestamp, contact |-> contact, dataIndex |-> dataIndex,
      calledBack |-> FALSE, isAnswered |-> FALSE ]

\* `${phoneNumber}_${record.timestamp.getTime()}`
RecordKey(phoneNumber, timestamp) == <<phoneNumber, timestamp>>

\* `${phoneNumber}_${answerMinute.getTime()}`: setSeconds(0, 0) on a whole minute
AnswerKey(phoneNumber, answerTimestamp) == <<phoneNumber, answerTimestamp>>

\* parseInt(parts[parts.length - 1]) of an answer key
AnswerKeyTime(answerKey) == answerKey[2]

HasKey(map, key) == \E i \in 1..Len(map) : map[i].key = key

\* Map.prototype.set: a known key keeps its place, a new one goes last
MapSet(map, key, value) ==
    IF HasKey(map, key)
    THEN [i \in 1..Len(map) |-> IF map[i].key = key THEN [key |-> key, value |-> value] ELSE map[i]]
    ELSE Append(map, [key |-> key, value |-> value])

-----------------------------------------------------------------------------
(* Bounded state store *)


\* Snapshot that keeps the first elements, slice(0, n), instead of the last
SnapshotOldest(c) ==
    [ present |-> TRUE,
      records |-> FirstN(c.allRecords, SaveRecordCap),
      processedIndexes |-> FirstN(c.processedIndexes, SaveIndexCap),
      realTimeMissedCount |-> c.realTimeMissedCount,
      monitorStartTime |-> c.monitorStartTime,
      sentRecords |-> FirstN(c.sentRecords, SaveSentCap),
      processedAnswers |-> FirstN(c.processedAnswers, SaveAnswerCap) ]

Snapshot(c) ==
    [ present |-> TRUE,
      records |-> LastN(c.allRecords, SaveRecordCap),
      processedIndexes |-> LastN(c.processedIndexes, SaveIndexCap),
      realTimeMissedCount |-> c.realTimeMissedCount,
      monitorStartTime |-> c.monitorStartTime,
      sentRecords |-> LastN(c.sentRecords, SaveSentCap),
      processedAnswers |-> LastN(c.processedAnswers, SaveAnswerCap) ]

\* Array.sort((a, b) => b - a) on the numeric indexes: a stable sort, here by
\* partition around the middle element
RECURSIVE SortIndexesDesc(_)
SortIndexesDesc(seq) ==
    IF Len(seq) <= 1 THEN seq
    ELSE LET x == seq[(Len(seq) + 1) \div 2]
             before == SelectSeq(seq, LAMBDA y : y.n > x.n)
             same == SelectSeq(seq, LAMBDA y : y.n = x.n)
             after == SelectSeq(seq, LAMBDA y : y.n < x.n)
         IN  SortIndexesDesc(before) \o same \o SortIndexesDesc(after)

\* the data-index attribute of row n, as text
IndexTexts == [n \in 0..LargestIndex |-> ToString(n)]

\* Number(index) of such a text
IndexNumbers ==
    [s \in {IndexTexts[n] : n \in DOMAIN IndexTexts} |->
        CHOOSE n \in DOMAIN IndexTexts : IndexTexts[n] = s]

IndexNumber(index) == IndexNumbers[index]


\* CleanupStores that leaves processedIndexes as it is
CleanupStoresKeepIndexes(c, clock) ==
    LET windowOf(p) ==
            LET recent == SelectSeq(c.recentCalls[p], LAMBDA call : InHorizon(call, clock))
            IN  LastN(recent, CleanupWindowCap)
        records ==
            IF c.isRealTimeMode /\ Len(c.allRecords) > CleanupRecordCap
            THEN LastN(c.allRecords, CleanupRecordCap)
            ELSE c.allRecords
        answers ==
            SelectSeq(c.processedAnswers, LAMBDA k : AnswerKeyTime(k) > clock - SixHours)
    IN  [c EXCEPT !.recentCalls = [p \in PhoneKeys |-> windowOf(p)],
                  !.allRecords = records,
                  !.processedAnswers = answers]

\* lines 1707-1743 of performanceCleanup: everything before the save
CleanupStores(c, clock) ==
    LET windowOf(p) ==
            LET recent == SelectSeq(c.recentCalls[p], LAMBDA call : InHorizon(call, clock))
            IN  LastN(recent, CleanupWindowCap)
        indexes ==
            IF Len(c.processedIndexes) > CleanupIndexCap
            THEN LET tagged == [i \in 1..Len(c.processedIndexes) |->
                                   [n |-> IndexNumber(c.processedIndexes[i]),
                                    s |-> c.processedIndexes[i]]]
                     sorted == FirstN(SortIndexesDesc(tagged), CleanupIndexCap)
                 IN  [i \in 1..Len(sorted) |-> sorted[i].s]
            ELSE c.processedIndexes
        records ==
            IF c.isRealTimeMode /\ Len(c.allRecords) > CleanupRecordCap
            THEN LastN(c.allRecords, CleanupRecordCap)
            ELSE c.allRecords
        answers ==
            SelectSeq(c.processedAnswers, LAMBDA k : AnswerKeyTime(k) > clock - SixHours)
    IN  [c EXCEPT !.recentCalls = [p \in PhoneKeys |-> windowOf(p)],
                  !.processedIndexes = indexes,
                  !.allRecords = records,
                  !.processedAnswers = answers]

\* saveToLocalStorage and performanceCleanup call each other: a failing
\* setItem runs the cleanup, whose last statement saves again.  `fails` is
\* the number of setItem calls that still throw.
RECURSIVE saveToLocalStorage(_, _, _)
performanceCleanup(c, fails, clock) ==
    saveToLocalStorage(CleanupStores(c, clock), fails, clock)

saveToLocalStorage(c, fails, clock) ==
    LET called == [c EXCEPT !.setItemCalls = c.setItemCalls + 1]
    IN  IF fails = 0
        THEN [called EXCEPT !.storage = Snapshot(c)]
        ELSE performanceCleanup(called, fails - 1, clock)


\* clearLocalStorage that keeps the sent ledger
clearLocalStorageKeepSent(c) ==
    [c EXCEPT !.storage = NoStorage,
              !.allRecords = <<>>,
              !.processedIndexes = <<>>,
              !.realTimeMissedCount = 0,
              !.monitorStartTime = NoDate,
              !.pendingRequests = {}]

clearLocalStorage(c) ==
    [c EXCEPT !.storage = NoStorage,
              !.allRecords = <<>>,
              !.processedIndexes = <<>>,
              !.realTimeMissedCount = 0,
              !.monitorStartTime = NoDate,
              !.sentRecords = <<>>,
              !.pendingRequests = {}]

\* The assignments of loadFromLocalStorage, in the order it makes them
LoadOrder ==
    << "records", "processedIndexes", "realTimeMissedCount", "monitorStartTime",
       "sentRecords", "processedAnswers" >>

\* What can be wrong with the stored item: its text is no JSON ("text"), or a
\* field is a value that map(), new Set() or new Map() throws on
Damages == {"text", "records", "processedIndexes", "sentRecords", "processedAnswers"}

PositionIn(seq, x) == CHOOSE i \in 1..Len(seq) : seq[i] = x

\* Whether loadFromLocalStorage reaches and makes the assignment of a field
\* before the exception that ends it
LoadAssigns(field, damaged) ==
    /\ damaged # "text"
    /\ damaged \in Range(LoadOrder) => PositionIn(LoadOrder, field) < PositionIn(LoadOrder, damaged)

\* new CallRecord(new Date(record.timestamp), record.contact, record.dataIndex,
\*                record.calledBack || false, record.isAnswered || false)
LoadRecord(record) ==
    [ timestamp |-> record.timestamp, contact |-> record.contact,
      dataIndex |-> record.dataIndex,
      calledBack |-> (record.calledBack \/ FALSE),
      isAnswered |-> (record.isAnswered \/ FALSE) ]

\* damaged names what is wrong with the item read ("" when nothing is)
loadFromLocalStorage(c, damaged) ==
    IF ~c.storage.present
    THEN c
    ELSE LET parsed == c.storage
         IN  [c EXCEPT
                !.allRecords = IF LoadAssigns("records", damaged)
                               THEN [i \in 1..Len(parsed.records) |-> LoadRecord(parsed.records[i])]
                               ELSE @,
                !.processedIndexes = IF LoadAssigns("processedIndexes", damaged)
                                     THEN parsed.processedIndexes ELSE @,
                !.realTimeMissedCount = IF LoadAssigns("realTimeMissedCount", damaged)
                                        THEN parsed.realTimeMissedCount ELSE @,
                !.monitorStartTime = IF LoadAssigns("monitorStartTime", damaged)
                                     THEN parsed.monitorStartTime ELSE @,
                !.sentRecords = IF LoadAssigns("sentRecords", damaged)
                                THEN parsed.sentRecords ELSE @,
                !.processedAnswers = IF LoadAssigns("processedAnswers", damaged)
                                     THEN parsed.processedAnswers ELSE @,
                !.loadError = damaged]

-----------------------------------------------------------------------------
(* Delivery queue *)

SheetData(c, record, isUpdate) ==
    LET phoneNumber == extractPhoneNumber(record.contact)
        contactInfo == separateContactInfo(record.contact)
    IN  [ dateTime |-> formatDateTimeForSheet(record.timestamp),
          number |-> contactInfo.displayNumber,
          actualMissedCall |-> isActualMissedCall(c.recentCalls[phoneNumber], record.timestamp),
          isUpdate |-> isUpdate,
          phoneNumber |-> phoneNumber,
          source |-> IF isUpdate THEN "Real-time Update" ELSE "Real-time Monitor",
          notes |-> contactInfo.contactName,
          answerTime |-> NoAnswerTime ]

\* the GM_xmlhttpRequest call: the request is in flight until a callback runs
Request(c, kind, data, record) ==
    [ id |-> Len(c.requests) + 1, kind |-> kind, data |-> data,
      record |-> [contact |-> record.contact, timestamp |-> record.timestamp],
      session |-> c.session, stopped |-> FALSE, state |-> "inflight",
      checksBefore |-> NoDate ]

sendToGoogleSheets(c, record, isUpdate) ==
    IF ~c.isRealTimeMode THEN c
    ELSE
        LET data == SheetData(c, record, isUpdate)
            recordKey == RecordKey(data.phoneNumber, record.timestamp)
            request == Request(c, "create", data, record)
        IN  [c EXCEPT
                !.sentRecords = MapSet(c.sentRecords, recordKey,
                                       [ dateTime |-> data.dateTime,
                                         number |-> data.number,
                                         actualMissedCall |-> data.actualMissedCall ]),
                !.pendingRequests = c.pendingRequests \cup {request.id},
                !.requests = Append(c.requests, request)]

-----------------------------------------------------------------------------
(* Reconciliation engine *)


\* updateData whose dateTime is the time of the answer
UpdateDataAnswerTime(record, phoneNumber, answerTimestamp) ==
    LET contactInfo == separateContactInfo(record.contact)
    IN  [ dateTime |-> formatDateTimeForSheet(answerTimestamp),
          number |-> contactInfo.displayNumber,
          actualMissedCall |-> "No",
          isUpdate |-> TRUE,
          phoneNumber |-> phoneNumber,
          source |-> "Call answered at",
          notes |-> contactInfo.contactName,
          answerTime |-> formatDateTimeForSheet(answerTimestamp) ]

UpdateData(record, phoneNumber, answerTimestamp) ==
    LET contactInfo == separateContactInfo(record.contact)
    IN  [ dateTime |-> formatDateTimeForSheet(record.timestamp),
          number |-> contactInfo.displayNumber,
          actualMissedCall |-> "No",
          isUpdate |-> TRUE,
          phoneNumber |-> phoneNumber,
          source |-> "Call answered at",
          notes |-> contactInfo.contactName,
          answerTime |-> formatDateTimeForSheet(answerTimestamp) ]


\* IsCandidate with the two bounds on the record's time exchanged
IsCandidateExchanged(c, record, phoneNumber, answerTimestamp) ==
    /\ extractPhoneNumber(record.contact) = phoneNumber
    /\ record.timestamp < answerTimestamp - OneHour
    /\ record.timestamp > answerTimestamp
    /\ HasKey(c.sentRecords, RecordKey(phoneNumber, record.timestamp))

\* IsCandidate that admits a record of the answer's own minute
IsCandidateSameMinute(c, record, phoneNumber, answerTimestamp) ==
    /\ extractPhoneNumber(record.contact) = phoneNumber
    /\ record.timestamp > answerTimestamp - OneHour
    /\ record.timestamp <= answerTimestamp
    /\ HasKey(c.sentRecords, RecordKey(phoneNumber, record.timestamp))

\* lines 2159-2172: the records an answer at answerTimestamp reclassifies
IsCandidate(c, record, phoneNumber, answerTimestamp) ==
    /\ extractPhoneNumber(record.contact) = phoneNumber
    /\ record.timestamp > answerTimestamp - OneHour
    /\ record.timestamp < answerTimestamp
    /\ HasKey(c.sentRecords, RecordKey(phoneNumber, record.timestamp))

AffectedRecords(c, phoneNumber, answerTimestamp) ==
    SelectSeq(c.allRecords, LAMBDA r : IsCandidate(c, r, phoneNumber, answerTimestamp))

\* lines 2174-2235: one update request per affected record, at most three
RECURSIVE SendUpdates(_, _, _, _)
SendUpdates(c, records, phoneNumber, answerTimestamp) ==
    IF records = <<>> \/ ~c.isRealTimeMode THEN c
    ELSE LET request == Request(c, "update",
                                UpdateData(Head(records), phoneNumber, answerTimestamp),
                                Head(records))
             sent == [c EXCEPT !.pendingRequests = c.pendingRequests \cup {request.id},
                               !.requests = Append(c.requests, request)]
         IN  SendUpdates(sent, Tail(records), phoneNumber, answerTimestamp)


\* updateMissedCallsAfterAnswer without the slice(0, 3) of line 2174
updateMissedCallsAfterAnswerAll(c, phoneNumber, answerTimestamp, fails, clock) ==
    LET answerKey == AnswerKey(phoneNumber, answerTimestamp)
        affectedRecords == AffectedRecords(c, phoneNumber, answerTimestamp)
    IN  IF ~c.isRealTimeMode THEN c
        ELSE IF answerKey \in Range(c.processedAnswers) THEN c
        ELSE LET sent == SendUpdates(c, affectedRecords, phoneNumber, answerTimestamp)
                 marked == [sent EXCEPT !.processedAnswers = SetAdd(sent.processedAnswers, answerKey)]
             IN  IF Len(affectedRecords) > 0
                 THEN saveToLocalStorage(marked, fails, clock)
                 ELSE marked

updateMissedCallsAfterAnswer(c, phoneNumber, answerTimestamp, fails, clock) ==
    LET answerKey == AnswerKey(phoneNumber, answerTimestamp)
        affectedRecords == AffectedRecords(c, phoneNumber, answerTimestamp)
    IN  IF ~c.isRealTimeMode THEN c
        ELSE IF answerKey \in Range(c.processedAnswers) THEN c
        ELSE LET sent == SendUpdates(c, FirstN(affectedRecords, MaxUpdatesPerAnswer),
                                     phoneNumber, answerTimestamp)
                 marked == [sent EXCEPT !.processedAnswers = SetAdd(sent.processedAnswers, answerKey)]
             IN  IF Len(affectedRecords) > 0
                 THEN saveToLocalStorage(marked, fails, clock)
                 ELSE marked

RecordExists(c, contact, timestamp) ==
    \E i \in 1..Len(c.allRecords) :
        /\ c.allRecords[i].contact = contact
        /\ c.allRecords[i].timestamp = timestamp


\* HandleMissedCall that takes a record for new unless its create is still in flight
HandleMissedCallUnlessPending(c, contact, timestamp, dataIndex, fails, clock) ==
    IF \E i \in 1..Len(c.requests) :
          /\ c.requests[i].id \in c.pendingRequests
          /\ c.requests[i].record = [contact |-> contact, timestamp |-> timestamp]
    THEN c
    ELSE LET record == CallRecord(timestamp, contact, dataIndex)
             added == [c EXCEPT !.allRecords = Append(c.allRecords, record),
                                !.realTimeMissedCount = c.realTimeMissedCount + 1]
         IN  saveToLocalStorage(sendToGoogleSheets(added, record, FALSE), fails, clock)

\* the missed branch without `this.realTimeMissedCount++`
HandleMissedCallUncounted(c, contact, timestamp, dataIndex, fails, clock) ==
    IF RecordExists(c, contact, timestamp) THEN c
    ELSE LET record == CallRecord(timestamp, contact, dataIndex)
             added == [c EXCEPT !.allRecords = Append(c.allRecords, record)]
         IN  saveToLocalStorage(sendToGoogleSheets(added, record, FALSE), fails, clock)

\* lines 2505-2543: a missed top row
HandleMissedCall(c, contact, timestamp, dataIndex, fails, clock) ==
    IF RecordExists(c, contact, timestamp) THEN c
    ELSE LET record == CallRecord(timestamp, contact, dataIndex)
             added == [c EXCEPT !.allRecords = Append(c.allRecords, record),
                                !.realTimeMissedCount = c.realTimeMissedCount + 1]
         IN  saveToLocalStorage(sendToGoogleSheets(added, record, FALSE), fails, clock)

checkForNewCalls(c, row, fails, clock) ==
    LET counted == [c EXCEPT !.domQueries = c.domQueries + 1]
    IN  IF row = NoRow THEN counted
        ELSE
        LET contact == separateContactInfo(row.sender).displayNumber
            timestamp == parseDateTime(row.timestamp, clock)
            phoneNumber == extractPhoneNumber(contact)
            isMissedCall == isMissedCallText(row.text)
            isAnsweredCall == isAnsweredCallText(row.text)
        IN  IF timestamp = NoDate THEN counted
            ELSE IF c.monitorStartTime # NoDate /\ timestamp <= c.monitorStartTime THEN counted
            ELSE
            LET tracked == [counted EXCEPT !.recentCalls =
                               updateRecentCalls(c.recentCalls, phoneNumber, timestamp,
                                                 isMissedCall, isAnsweredCall, clock)]
            IN  IF isAnsweredCall
                THEN updateMissedCallsAfterAnswer(tracked, phoneNumber, timestamp, fails, clock)
                ELSE IF isMissedCall
                THEN HandleMissedCall(tracked, contact, timestamp, row.index, fails, clock)
                ELSE tracked

-----------------------------------------------------------------------------
(* Monitor scheduler *)

NoTop == [contact |-> "", timestamp |-> BadTimeText, content |-> ""]

getCurrentTopRecord(row) ==
    IF row = NoRow THEN NoTop
    ELSE [contact |-> row.sender, timestamp |-> row.timestamp, content |-> row.text]

hasTopRecordChanged(c, currentTopRecord) ==
    \/ c.lastTopRecord = NoTop
    \/ c.lastTopRecord # currentTopRecord

\* the missed branch that sends before the await and has pushed no record yet
HandleMissedCallToAwaitUnrecorded(c, contact, timestamp, dataIndex) ==
    IF RecordExists(c, contact, timestamp) THEN c
    ELSE sendToGoogleSheets(c, CallRecord(timestamp, contact, dataIndex), FALSE)

\* lines 2509-2528 up to the point where `await this.sendToGoogleSheets(record)`
\* suspends the call: sendToGoogleSheets has run to its end by then
HandleMissedCallToAwait(c, contact, timestamp, dataIndex) ==
    IF RecordExists(c, contact, timestamp) THEN c
    ELSE LET record == CallRecord(timestamp, contact, dataIndex)
             added == [c EXCEPT !.allRecords = Append(c.allRecords, record),
                                !.realTimeMissedCount = c.realTimeMissedCount + 1]
         IN  sendToGoogleSheets(added, record, FALSE)

\* checkForNewCalls from its call to its first suspension.  stage is "sent"
\* when the call is suspended at `await this.sendToGoogleSheets(record)` with
\* newMissedFound = 1, and "returned" when nothing is left of it but the
\* return to its caller (updateMissedCallsAfterAnswer, which has no await of
\* its own, has run to its end before the await on it suspends the call)
checkForNewCallsToAwait(c, row, fails, clock) ==
    LET counted == [c EXCEPT !.domQueries = c.domQueries + 1]
        returned(engine) == [engine |-> engine, stage |-> "returned"]
    IN  IF row = NoRow THEN returned(counted)
        ELSE
        LET contact == separateContactInfo(row.sender).displayNumber
            timestamp == parseDateTime(row.timestamp, clock)
            phoneNumber == extractPhoneNumber(contact)
            isMissedCall == isMissedCallText(row.text)
            isAnsweredCall == isAnsweredCallText(row.text)
        IN  IF timestamp = NoDate THEN returned(counted)
            ELSE IF c.monitorStartTime # NoDate /\ timestamp <= c.monitorStartTime
            THEN returned(counted)
            ELSE
            LET tracked == [counted EXCEPT !.recentCalls =
                               updateRecentCalls(c.recentCalls, phoneNumber, timestamp,
                                                 isMissedCall, isAnsweredCall, clock)]
            IN  IF isAnsweredCall
                THEN returned(updateMissedCallsAfterAnswer(tracked, phoneNumber, timestamp,
                                                           fails, clock))
                ELSE IF isMissedCall /\ ~RecordExists(tracked, contact, timestamp)
                THEN [engine |-> HandleMissedCallToAwait(tracked, contact, timestamp,
                                                         row.index),
                      stage |-> "sent"]
                ELSE returned(tracked)

\* The places inside the try block of lines 2440-2528 where an exception is
\* followed: before updateRecentCalls (line 2485), right after it, and in the
\* missed branch after allRecords.push and before sendToGoogleSheets has
\* written anything (lines 2519-2527, 2046-2057)
ThrowPoints == {"classified", "tracked", "pushed"}

\* checkForNewCalls on a row whose processing throws at `point`: the catch of
\* lines 2529-2532 logs the error and returns, and what was done stays done.
\* A point the call does not reach throws nothing (caught stays "").
checkForNewCallsThrowing(c, row, point, clock) ==
    LET counted == [c EXCEPT !.domQueries = c.domQueries + 1]
        contact == separateContactInfo(row.sender).displayNumber
        timestamp == parseDateTime(row.timestamp, clock)
        phoneNumber == extractPhoneNumber(contact)
        isMissedCall == isMissedCallText(row.text)
        isAnsweredCall == isAnsweredCallText(row.text)
        tracked == [counted EXCEPT !.recentCalls =
                       updateRecentCalls(c.recentCalls, phoneNumber, timestamp,
                                         isMissedCall, isAnsweredCall, clock)]
        added == [tracked EXCEPT
                     !.allRecords = Append(tracked.allRecords,
                                           CallRecord(timestamp, contact, row.index)),
                     !.realTimeMissedCount = tracked.realTimeMissedCount + 1]
        passes == /\ timestamp # NoDate
                  /\ ~(c.monitorStartTime # NoDate /\ timestamp <= c.monitorStartTime)
    IN  CASE point = "classified" -> [counted EXCEPT !.caught = point]
          [] point = "tracked" /\ passes -> [tracked EXCEPT !.caught = point]
          [] point = "pushed" /\ passes /\ ~isAnsweredCall /\ isMissedCall
                /\ ~RecordExists(tracked, contact, timestamp) ->
                [added EXCEPT !.caught = point]
          [] OTHER -> counted

\* a trigger calls checkForNewCalls, which runs to its first suspension; the
\* observer's callback does nothing after the call has returned
Suspend(began, timer) ==
    IF began.stage = "returned" /\ ~timer THEN began.engine
    ELSE [began.engine EXCEPT
             !.awaiting = Append(began.engine.awaiting,
                                 [stage |-> began.stage, timer |-> timer])]

\* a suspended call goes on: lines 2535-2537 after the await of
\* sendToGoogleSheets, or, back in a timer's callback,
\* this.lastTopRecord = this.getCurrentTopRecord()
Resumed(c, i, top, fails, clock) ==
    LET call == c.awaiting[i]
        others == SubSeq(c.awaiting, 1, i - 1) \o SubSeq(c.awaiting, i + 1, Len(c.awaiting))
    IN  IF call.stage = "sent"
        THEN [saveToLocalStorage(c, fails, clock) EXCEPT
                 !.awaiting = IF call.timer
                              THEN [c.awaiting EXCEPT ![i].stage = "returned"]
                              ELSE others]
        ELSE [c EXCEPT !.lastTopRecord = getCurrentTopRecord(top),
                       !.awaiting = others]

\* a request in flight when monitoring stops is remembered as such
MarkStopped(reqs) ==
    [i \in 1..Len(reqs) |->
        IF reqs[i].state = "inflight" THEN [reqs[i] EXCEPT !.stopped = TRUE] ELSE reqs[i]]


\* stopRealTimeMode that leaves the 2 s timer armed
stopRealTimeModeTimerLeft(c, skipDownload) ==
    IF ~c.isRealTimeMode THEN c
    ELSE LET stopped == [c EXCEPT !.isRealTimeMode = FALSE,
                                  !.realTimeObserver = FALSE,
                                  !.realTimeInterval = FALSE,
                                  !.pendingRequests = {},
                                  !.requests = MarkStopped(c.requests)]
         IN  IF skipDownload THEN stopped
             ELSE [clearLocalStorage(stopped) EXCEPT !.realTimeMissedCount = 0,
                                                     !.monitorStartTime = NoDate]

stopRealTimeMode(c, skipDownload) ==
    IF ~c.isRealTimeMode THEN c
    ELSE LET stopped == [c EXCEPT !.isRealTimeMode = FALSE,
                                  !.realTimeObserver = FALSE,
                                  !.realTimeInterval = FALSE,
                                  !.topRecordCheckInterval = FALSE,
                                  !.pendingRequests = {},
                                  !.requests = MarkStopped(c.requests)]
         IN  IF skipDownload THEN stopped
             ELSE [clearLocalStorage(stopped) EXCEPT !.realTimeMissedCount = 0,
                                                     !.monitorStartTime = NoDate]

setupRealTimeObserver(c, top) ==
    [c EXCEPT !.lastTopRecord = getCurrentTopRecord(top),
              !.realTimeObserver = TRUE,
              !.topRecordCheckInterval = TRUE,
              !.realTimeInterval = TRUE]


startRealTimeMode(c, top, clock) ==
    LET before == IF c.isRealTimeMode THEN stopRealTimeMode(c, TRUE) ELSE c
        reset == [before EXCEPT !.isRealTimeMode = TRUE,
                                !.isCollecting = FALSE,
                                !.realTimeMissedCount = 0,
                                !.monitorStartTime = clock,
                                !.allRecords = <<>>,
                                !.processedIndexes = <<>>,
                                !.recentCalls = [p \in PhoneKeys |-> <<>>],
                                !.sentRecords = <<>>,
                                !.processedAnswers = <<>>,
                                !.session = before.session + 1]
    IN  setupRealTimeObserver(reset, top)

-----------------------------------------------------------------------------
(* Bulk collection *)

AddIndex(c, dataIndex) ==
    [c EXCEPT !.processedIndexes = SetAdd(c.processedIndexes, dataIndex)]


\* CollectRow that does not consult processedIndexes
CollectRowEveryTime(c, row, lowerRowDates, clock) ==
    LET isMissedCall == isMissedCallText(row.text)
        isAnsweredCall == isAnsweredCallText(row.text)
        contact == separateContactInfo(row.sender).displayNumber
        first == parseDateTimeWith(row.timestamp, lowerRowDates, clock)
        timestamp == IF first = NoDate THEN parseAnyDateTime(row.timestamp) ELSE first
        phoneNumber == extractPhoneNumber(contact)
    IN  IF ~isMissedCall /\ ~isAnsweredCall THEN AddIndex(c, row.index)
        ELSE IF timestamp = NoDate THEN AddIndex(c, row.index)
        ELSE LET tracked == [c EXCEPT !.recentCalls =
                                updateRecentCalls(c.recentCalls, phoneNumber, timestamp,
                                                  isMissedCall, isAnsweredCall, clock)]
                 added == IF isMissedCall
                          THEN [tracked EXCEPT !.allRecords =
                                   Append(tracked.allRecords,
                                          CallRecord(timestamp, contact, row.index))]
                          ELSE tracked
             IN  AddIndex(added, row.index)

\* lines 2607-2677: the body of the loop over the rows, for one row
CollectRow(c, row, lowerRowDates, clock) ==
    LET isMissedCall == isMissedCallText(row.text)
        isAnsweredCall == isAnsweredCallText(row.text)
        contact == separateContactInfo(row.sender).displayNumber
        first == parseDateTimeWith(row.timestamp, lowerRowDates, clock)
        timestamp == IF first = NoDate THEN parseAnyDateTime(row.timestamp) ELSE first
        phoneNumber == extractPhoneNumber(contact)
    IN  IF row.index \in Range(c.processedIndexes) THEN c
        ELSE IF ~isMissedCall /\ ~isAnsweredCall THEN AddIndex(c, row.index)
        ELSE IF timestamp = NoDate THEN AddIndex(c, row.index)
        ELSE LET tracked == [c EXCEPT !.recentCalls =
                                updateRecentCalls(c.recentCalls, phoneNumber, timestamp,
                                                  isMissedCall, isAnsweredCall, clock)]
                 added == IF isMissedCall
                          THEN [tracked EXCEPT !.allRecords =
                                   Append(tracked.allRecords,
                                          CallRecord(timestamp, contact, row.index))]
                          ELSE tracked
             IN  AddIndex(added, row.index)

\* the loop over the rows, in document order: the first half, then the rest
\* (the CASE guard has the first half evaluated before the rest is entered)
RECURSIVE collectRows(_, _, _, _)
collectRows(c, rows, lowerRowDates, clock) ==
    IF Len(rows) = 0 THEN c
    ELSE IF Len(rows) = 1 THEN CollectRow(c, rows[1], lowerRowDates, clock)
    ELSE LET first == collectRows(c, SubSeq(rows, 1, Len(rows) \div 2),
                                  lowerRowDates, clock)
         IN  CASE first.isCollecting \in BOOLEAN ->
                    collectRows(first, SubSeq(rows, Len(rows) \div 2 + 1, Len(rows)),
                                lowerRowDates, clock)

\* lines 2596-2605: the dates parseDateTime(text) reads off the cards of the pass
LowerRowDates(rows, clock) ==
    SelectSeq([i \in 1..Len(rows) |-> parseDateTime(rows[i].timestamp, clock)],
              LAMBDA d : d # NoDate)

collectRecords(c, rows, clock) ==
    collectRows(c, rows, LowerRowDates(rows, clock), clock)

\* Array.sort((a, b) => b.timestamp - a.timestamp), stable, in place; here by
\* partition around the middle element
RECURSIVE SortRecordsDesc(_)
SortRecordsDesc(seq) ==
    IF Len(seq) <= 1 THEN seq
    ELSE LET x == seq[(Len(seq) + 1) \div 2]
             before == SelectSeq(seq, LAMBDA y : y.timestamp > x.timestamp)
             same == SelectSeq(seq, LAMBDA y : y.timestamp = x.timestamp)
             after == SelectSeq(seq, LAMBDA y : y.timestamp < x.timestamp)
         IN  SortRecordsDesc(before) \o same \o SortRecordsDesc(after)

\* lines 2830-2844: one pass of the while loop, up to its first delay
CollectPass(c, rows, clock) ==
    LET collected == collectRecords(c, rows, clock)
    IN  [collected EXCEPT !.allRecords = SortRecordsDesc(collected.allRecords)]

\* lines 2908-2920: after the loop
CollectFinish(c, rows, clock) ==
    LET final == collectRecords([c EXCEPT !.isCollecting = FALSE], rows, clock)
    IN  [final EXCEPT !.allRecords = SortRecordsDesc(final.allRecords)]

-----------------------------------------------------------------------------
(* The v2.1 collector, the first script of part_000 *)

\* v2.1 saveToLocalStorage: records, processedIndexes and realTimeCount
saveToLocalStorageV21(c) ==
    [c EXCEPT !.storage = [present |-> TRUE, records |-> c.allRecords,
                           processedIndexes |-> c.processedIndexes,
                           realTimeCount |-> c.realTimeMissedCount],
              !.setItemCalls = c.setItemCalls + 1]

\* v2.1 clearLocalStorage
clearLocalStorageV21(c) ==
    [c EXCEPT !.storage = NoStorage,
              !.allRecords = <<>>,
              !.processedIndexes = <<>>,
              !.realTimeMissedCount = 0]

\* the body of the loop of checkForNewMissedCalls, for one row
CheckRowV21(c, row, clock) ==
    LET contact == separateContactInfo(row.sender).displayNumber
        timestamp == parseDateTime(row.timestamp, clock)
    IN  IF row.index \in Range(c.processedIndexes) THEN c
        ELSE IF ~isMissedCallText(row.text) THEN AddIndex(c, row.index)
        ELSE IF timestamp = NoDate THEN AddIndex(c, row.index)
        ELSE saveToLocalStorageV21(
                 [AddIndex(c, row.index) EXCEPT
                     !.allRecords = Append(c.allRecords,
                                           CallRecord(timestamp, contact, row.index)),
                     !.realTimeMissedCount = c.realTimeMissedCount + 1])

\* v2.1 checkForNewMissedCalls over the cards at the head of the list
RECURSIVE CheckRowsV21(_, _, _)
CheckRowsV21(c, rows, clock) ==
    IF Len(rows) = 0 THEN c
    ELSE CheckRowsV21(CheckRowV21(c, Head(rows), clock), Tail(rows), clock)

checkForNewMissedCalls(c, rows, clock) ==
    CheckRowsV21([c EXCEPT !.domQueries = c.domQueries + 1], FirstN(rows, 5), clock)

\* v2.1 collectCurrentPageMissedCalls: the same loop over every card, then
\* realTimeCount = allRecords.length and one save
collectCurrentPageMissedCalls(c, rows, clock) ==
    LET collected == CheckRowsV21(c, rows, clock)
    IN  saveToLocalStorageV21(
            [collected EXCEPT !.realTimeMissedCount = Len(collected.allRecords)])

\* v2.1 stopRealTimeMode: the observer, realTimeInterval and
\* viewerUpdateInterval are cleared, _topRecordCheckInterval is not
stopRealTimeModeV21(c, skipDownload) ==
    IF ~c.isRealTimeMode THEN c
    ELSE LET stopped == [c EXCEPT !.isRealTimeMode = FALSE,
                                  !.realTimeObserver = FALSE,
                                  !.realTimeInterval = FALSE]
         IN  IF skipDownload THEN stopped ELSE clearLocalStorageV21(stopped)

\* v2.1 startRealTimeMode
startRealTimeModeV21(c, rows, top, clock) ==
    LET before == IF c.isRealTimeMode THEN stopRealTimeModeV21(c, TRUE) ELSE c
        started == [before EXCEPT !.isRealTimeMode = TRUE,
                                  !.isCollecting = FALSE,
                                  !.session = before.session + 1]
    IN  setupRealTimeObserver(collectCurrentPageMissedCalls(started, rows, clock), top)

-----------------------------------------------------------------------------
(* Rows the live view can show *)

\* a call that has just happened heads the list with the time of the clock;
\* calls come in at the clock readings of CallTimes, from either sender, and
\* the second sender places no outgoing call
NewCallRows(clock) ==
    IF clock \notin CallTimes THEN {}
    ELSE { r \in [index : TopIndexes, sender : SenderTexts, text : RowTexts,
                  timestamp : {ViewTimeText(clock)}] :
             r.text = "Outgoing call" => r.sender = "(555)123-4567" }

\* Calls that come in while monitoring is off: line 2478 drops every one of
\* them later (their time is at or before the next monitorStartTime), so one
\* kind of such call is explored
IdleCallRows(clock) ==
    {r \in NewCallRows(clock) : r.text = "Missed call" /\ r.sender = "(555)123-4567"}

\* the cards below the first one that collectRecords can find rendered: a missed
\* call of the same minute as the first card, an outgoing call, or a card whose
\* time cannot be read
LowerRows(top) ==
    { r \in [index : LowerIndexes, sender : SenderTexts,
             text : {"Missed call", "Outgoing call"},
             timestamp : {top.timestamp, BadTimeText}] :
        /\ r.text = "Outgoing call" =>
              (r.sender = "(555)123-4567" /\ r.timestamp = top.timestamp)
        /\ r.timestamp = BadTimeText => r.sender = "(555)123-4567" }

\* document.querySelectorAll of the cards, in document order, each data-index once
Batches(top) ==
    IF top = NoRow THEN {<<>>}
    ELSE {<<top>>} \cup { <<top, r>> : r \in LowerRows(top) }

\* the texts of the forms shown other than the plain time of the clock
OddTimeTexts(clock, texts) ==
    (IF "yesterday" \in texts THEN {YesterdayText(clock)} ELSE {})
       \cup (IF "bad" \in texts THEN {BadTimeText} ELSE {})

\* a first card whose timestamp is not a plain time of today: a call of the
\* first sender, missed or answered
OddRows(clock, texts) ==
    IF clock \notin CallTimes THEN {}
    ELSE [index : TopIndexes, sender : {"(555)123-4567"},
          text : {"Missed call", "Incoming call answered by X"},
          timestamp : OddTimeTexts(clock, texts)]

\* the card below such a first card: a missed call of the second sender, of
\* today or labelled "Yesterday"
SiblingRows(clock, texts) ==
    [index : LowerIndexes, sender : {"(555)987-6543"}, text : {"Missed call"},
     timestamp : {ViewTimeText(clock)} \cup OddTimeTexts(clock, texts \ {"bad"})]

\* the list after a call came in: the cards from the first one down
Lists(clock, texts) ==
    { <<r>> : r \in NewCallRows(clock) \cup OddRows(clock, texts) }
       \cup { <<r, s>> : r \in OddRows(clock, texts), s \in SiblingRows(clock, texts) }

\* the cards a pass of collectRecords finds rendered
BatchesOf(top, clock, texts) ==
    IF top = NoRow \/ texts = PlainTexts THEN Batches(top)
    ELSE Batches(top) \cup { <<top, s>> : s \in SiblingRows(clock, texts) }

\* the cards of a step are kept for the runs that show the other text forms
Listed(rows, texts) == IF texts = PlainTexts THEN <<>> ELSE rows

-----------------------------------------------------------------------------
(* Initial state: a fresh page with nothing persisted *)

\* the beforeunload listener
destroy(c) ==
    [stopRealTimeMode(c, FALSE) EXCEPT !.allRecords = <<>>,
                                       !.processedIndexes = <<>>,
                                       !.recentCalls = [p \in PhoneKeys |-> <<>>],
                                       !.sentRecords = <<>>,
                                       !.processedAnswers = <<>>]

\* new NextivaCollector() on a freshly loaded page; the request log and the
\* counters the exploration is bounded by go on across pages
constructor(c, damaged) ==
    loadFromLocalStorage(
        [c EXCEPT !.isCollecting = FALSE,
                  !.isRealTimeMode = FALSE,
                  !.allRecords = <<>>,
                  !.processedIndexes = <<>>,
                  !.realTimeObserver = FALSE,
                  !.realTimeInterval = FALSE,
                  !.topRecordCheckInterval = FALSE,
                  !.lastTopRecord = NoTop,
                  !.realTimeMissedCount = 0,
                  !.monitorStartTime = NoDate,
                  !.recentCalls = [p \in PhoneKeys |-> <<>>],
                  !.sentRecords = <<>>,
                  !.processedAnswers = <<>>,
                  !.pendingRequests = {}],
        damaged)

\* the state after construction, apart from sheetDate
InitCollector(lim) ==
    /\ limits = lim
    /\ now = 840
    /\ topRow = NoRow
    /\ isRealTimeMode = FALSE
    /\ isCollecting = FALSE
    /\ allRecords = <<>>
    /\ processedIndexes = <<>>
    /\ recentCalls = [p \in PhoneKeys |-> <<>>]
    /\ sentRecords = <<>>
    /\ processedAnswers = <<>>
    /\ pendingRequests = {}
    /\ monitorStartTime = NoDate
    /\ realTimeMissedCount = 0
    /\ realTimeObserver = FALSE
    /\ realTimeInterval = FALSE
    /\ topRecordCheckInterval = FALSE
    /\ lastTopRecord = NoTop
    /\ storage = NoStorage
    /\ requests = <<>>
    /\ domQueries = 0
    /\ session = 0
    /\ setItemCalls = 0
    /\ loadError = ""
    /\ lastRows = <<>>
    /\ awaiting = <<>>
    /\ caught = ""
    /\ collectLoops = 0
    /\ collectPasses = 0
    /\ realtimeButtonDisabled = FALSE
    /\ scroll = NoScroll

InitWith(lim) == InitCollector(lim) /\ sheetDate = NoSheetDate

Init ==
    InitWith([obs |-> MaxObs, starts |-> MaxStarts, passes |-> MaxPasses,
              writes |-> WriteFailures, clock |-> ClockValues, texts |-> PlainTexts])

-----------------------------------------------------------------------------
(* Actions *)

AdvanceClock ==
    /\ \E t \in limits.clock : t > now /\ now' = t
    /\ setItemCalls' = 0
    /\ loadError' = ""
    /\ lastRows' = <<>>
    /\ caught' = ""
    /\ UNCHANGED <<topRow, isRealTimeMode, isCollecting, allRecords, processedIndexes,
                   recentCalls, sentRecords, processedAnswers, pendingRequests,
                   monitorStartTime, realTimeMissedCount, realTimeObserver,
                   realTimeInterval, topRecordCheckInterval, lastTopRecord, storage,
                   requests, domQueries, session, awaiting, collectLoops,
                   collectPasses, realtimeButtonDisabled, scroll, sheetDate, limits>>

\* realtimeButton.onclick while not monitoring
StartMonitor ==
    /\ ~isRealTimeMode
    /\ ~realtimeButtonDisabled
    /\ session < limits.starts
    /\ Commit(startRealTimeMode(Collector, topRow, now))
    /\ UNCHANGED <<now, topRow, collectLoops, collectPasses, realtimeButtonDisabled, scroll, sheetDate, limits>>

\* realtimeButton.onclick while monitoring
StopMonitor ==
    /\ isRealTimeMode
    /\ ~realtimeButtonDisabled
    /\ Commit(stopRealTimeMode(Collector, FALSE))
    /\ UNCHANGED <<now, topRow, collectLoops, collectPasses, realtimeButtonDisabled, scroll, sheetDate, limits>>

\* a call comes in and heads the list while the MutationObserver is connected:
\* the observer is called back before any timer can run
ViewChange ==
    /\ realTimeObserver
    /\ domQueries < limits.obs
    /\ \E list \in Lists(now, limits.texts), fails \in limits.writes :
          /\ list[1] # topRow
          /\ topRow' = list[1]
          /\ Commit([checkForNewCalls(Collector, list[1], fails, now)
                        EXCEPT !.lastRows = Listed(list, limits.texts)])
    /\ UNCHANGED <<now, collectLoops, collectPasses, realtimeButtonDisabled, scroll, sheetDate, limits>>

\* a call comes in while no observer is connected: nothing runs
IdleViewChange ==
    /\ ~realTimeObserver
    /\ \E row \in IdleCallRows(now) \ {topRow} : topRow' = row
    /\ Commit(Collector)
    /\ UNCHANGED <<now, collectLoops, collectPasses, realtimeButtonDisabled, scroll, sheetDate, limits>>

\* the MutationObserver callback for a mutation that leaves the first card
ObserverCallback ==
    /\ realTimeObserver
    /\ domQueries < limits.obs
    /\ \E fails \in limits.writes :
          Commit(checkForNewCalls(Collector, topRow, fails, now))
    /\ UNCHANGED <<now, topRow, collectLoops, collectPasses, realtimeButtonDisabled, scroll, sheetDate, limits>>

\* the 2 s timer: check only when the top record changed
TopRecordCheck ==
    /\ topRecordCheckInterval
    /\ domQueries < limits.obs
    /\ topRow # NoRow
    /\ hasTopRecordChanged(Collector, getCurrentTopRecord(topRow))
    /\ \E fails \in limits.writes :
          Commit([checkForNewCalls(Collector, topRow, fails, now)
                     EXCEPT !.lastTopRecord = getCurrentTopRecord(topRow)])
    /\ UNCHANGED <<now, topRow, collectLoops, collectPasses, realtimeButtonDisabled, scroll, sheetDate, limits>>

\* the 5 s timer
FallbackPoll ==
    /\ realTimeInterval
    /\ domQueries < limits.obs
    /\ \E fails \in limits.writes :
          Commit([checkForNewCalls(Collector, topRow, fails, now)
                     EXCEPT !.lastTopRecord = getCurrentTopRecord(topRow)])
    /\ UNCHANGED <<now, topRow, collectLoops, collectPasses, realtimeButtonDisabled, scroll, sheetDate, limits>>


\* DeliveryOutcome that takes the record of a failed request out of the sent ledger
DeliveryOutcomeUnmark(c, i, outcome) ==
    LET deleted == [c EXCEPT !.pendingRequests = c.pendingRequests \ {c.requests[i].id}]
        fate == IF outcome \in {"error", "timeout"} THEN outcome
                ELSE IF ~c.isRealTimeMode THEN "ignored"
                ELSE outcome
        failedKey == RecordKey(extractPhoneNumber(c.requests[i].record.contact),
                               c.requests[i].record.timestamp)
        ledger == IF fate \in {"rejected", "error", "timeout"}
                  THEN SelectSeq(c.sentRecords, LAMBDA e : e.key # failedKey)
                  ELSE c.sentRecords
    IN  [deleted EXCEPT !.requests[i].state = fate,
                        !.requests[i].checksBefore = c.domQueries,
                        !.sentRecords = ledger]

\* onload / onerror / ontimeout of one request in flight
DeliveryOutcome(c, i, outcome) ==
    LET deleted == [c EXCEPT !.pendingRequests = c.pendingRequests \ {c.requests[i].id}]
        fate == IF outcome \in {"error", "timeout"} THEN outcome
                ELSE IF ~c.isRealTimeMode THEN "ignored"
                ELSE outcome
    IN  [deleted EXCEPT !.requests[i].state = fate,
                        !.requests[i].checksBefore = c.domQueries]

DeliveryComplete ==
    /\ \E i \in 1..Len(requests), outcome \in {"ok", "rejected", "error", "timeout"} :
          /\ requests[i].state = "inflight"
          /\ Commit(DeliveryOutcome(Collector, i, outcome))
    /\ UNCHANGED <<now, topRow, collectLoops, collectPasses, realtimeButtonDisabled, scroll, sheetDate, limits>>

\* the 5 min cleanup timer
CleanupTick ==
    /\ \E fails \in limits.writes : Commit(performanceCleanup(Collector, fails, now))
    /\ UNCHANGED <<now, topRow, collectLoops, collectPasses, realtimeButtonDisabled, scroll, sheetDate, limits>>

\* collectButton.onclick while idle, and autoScrollAndCollect up to its first delay
CollectStart ==
    /\ ~isRealTimeMode
    /\ ~isCollecting
    /\ collectPasses < limits.passes
    /\ \E rows \in BatchesOf(topRow, now, limits.texts) :
          Commit([CollectPass([Collector EXCEPT !.allRecords = <<>>,
                                                !.processedIndexes = <<>>,
                                                !.isCollecting = TRUE],
                              rows, now) EXCEPT !.lastRows = Listed(rows, limits.texts)])
    /\ collectLoops' = collectLoops + 1
    /\ collectPasses' = collectPasses + 1
    /\ realtimeButtonDisabled' = TRUE
    /\ UNCHANGED <<now, topRow, scroll, sheetDate, limits>>

\* collectButton.onclick while a collection runs
CollectStop ==
    /\ isCollecting
    /\ Commit([Collector EXCEPT !.isCollecting = FALSE])
    /\ realtimeButtonDisabled' = FALSE
    /\ UNCHANGED <<now, topRow, collectLoops, collectPasses, scroll, sheetDate, limits>>

\* a loop comes back from its delays, finds isCollecting set and makes one more
\* pass; slow is the branch endTime - startTime > 500 of the pass before
CollectAgain ==
    /\ collectLoops > 0
    /\ isCollecting
    /\ collectPasses < limits.passes
    /\ \E rows \in BatchesOf(topRow, now, limits.texts), slow \in BOOLEAN, fails \in limits.writes :
          LET c == IF slow THEN performanceCleanup(Collector, fails, now) ELSE Collector
          IN  Commit([CollectPass(c, rows, now) EXCEPT !.lastRows = Listed(rows, limits.texts)])
    /\ collectPasses' = collectPasses + 1
    /\ UNCHANGED <<now, topRow, collectLoops, realtimeButtonDisabled, scroll, sheetDate, limits>>

\* a loop ends, at the bottom of the list or because isCollecting was reset:
\* the final pass, the download, and the rest of the click handler
CollectEnd ==
    /\ collectLoops > 0
    /\ \E rows \in BatchesOf(topRow, now, limits.texts), atBottom \in BOOLEAN :
          /\ atBottom => isCollecting
          /\ ~atBottom => ~isCollecting
          /\ LET c == IF atBottom THEN CollectPass(Collector, rows, now) ELSE Collector
             IN  Commit([CollectFinish(c, rows, now) EXCEPT !.lastRows = Listed(rows, limits.texts)])
    /\ collectLoops' = collectLoops - 1
    /\ realtimeButtonDisabled' = FALSE
    /\ UNCHANGED <<now, topRow, collectPasses, scroll, sheetDate, limits>>

Next ==
    \/ AdvanceClock
    \/ StartMonitor
    \/ StopMonitor
    \/ ViewChange
    \/ IdleViewChange
    \/ ObserverCallback
    \/ TopRecordCheck
    \/ FallbackPoll
    \/ CleanupTick

Spec == Init /\ [][Next]_vars

\* a longer session, started once
InitLong ==
    InitWith([obs |-> MaxObsLong, starts |-> 1, passes |-> MaxPasses,
              writes |-> WriteFailures, clock |-> ClockValues, texts |-> PlainTexts])

SpecLong == InitLong /\ [][Next]_vars

\* the session with the callbacks of the requests
NextDelivery ==
    \/ AdvanceClock
    \/ StartMonitor
    \/ StopMonitor
    \/ ViewChange
    \/ FallbackPoll
    \/ DeliveryComplete

\* the callbacks are followed over the first part of the day
DeliveryClock == {840, 855, 880}

InitDelivery ==
    InitWith([obs |-> MaxObs, starts |-> MaxStarts, passes |-> MaxPasses,
              writes |-> WriteFailures, clock |-> DeliveryClock, texts |-> PlainTexts])

SpecDelivery == InitDelivery /\ [][NextDelivery]_vars

\* bulk collection, with monitoring started and stopped around it
NextBulk ==
    \/ AdvanceClock
    \/ StartMonitor
    \/ StopMonitor
    \/ ViewChange
    \/ FallbackPoll
    \/ CollectStart
    \/ CollectStop
    \/ CollectAgain
    \/ CollectEnd

\* one monitoring session at most, calls at one clock reading
BulkClock == {840, 855}

InitBulk ==
    InitWith([obs |-> MaxObs, starts |-> 1, passes |-> MaxPasses,
              writes |-> WriteFailures, clock |-> BulkClock, texts |-> PlainTexts])

SpecBulk == InitBulk /\ [][NextBulk]_vars

\* a call comes in while the observer is connected: the callback runs
\* checkForNewCalls up to its first await
ViewChangeAwait ==
    /\ realTimeObserver
    /\ domQueries < limits.obs
    /\ \E row \in NewCallRows(now) \ {topRow}, fails \in limits.writes :
          /\ topRow' = row
          /\ Commit(Suspend(checkForNewCallsToAwait(Collector, row, fails, now), FALSE))
    /\ UNCHANGED <<now, collectLoops, collectPasses, realtimeButtonDisabled, scroll, sheetDate, limits>>

\* the 2 s timer fires and, the top record having changed, runs checkForNewCalls
\* up to its first await
TopRecordCheckAwait ==
    /\ topRecordCheckInterval
    /\ domQueries < limits.obs
    /\ topRow # NoRow
    /\ hasTopRecordChanged(Collector, getCurrentTopRecord(topRow))
    /\ \E fails \in limits.writes :
          Commit(Suspend(checkForNewCallsToAwait(Collector, topRow, fails, now), TRUE))
    /\ UNCHANGED <<now, topRow, collectLoops, collectPasses, realtimeButtonDisabled, scroll, sheetDate, limits>>

\* the 5 s timer fires and runs checkForNewCalls up to its first await
FallbackPollAwait ==
    /\ realTimeInterval
    /\ domQueries < limits.obs
    /\ \E fails \in limits.writes :
          Commit(Suspend(checkForNewCallsToAwait(Collector, topRow, fails, now), TRUE))
    /\ UNCHANGED <<now, topRow, collectLoops, collectPasses, realtimeButtonDisabled, scroll, sheetDate, limits>>

\* one of the suspended calls goes on to its next await or to its end
Resume ==
    /\ \E i \in 1..Len(awaiting), fails \in limits.writes :
          Commit(Resumed(Collector, i, topRow, fails, now))
    /\ UNCHANGED <<now, topRow, collectLoops, collectPasses, realtimeButtonDisabled, scroll, sheetDate, limits>>

\* v2.1 realtimeButton.onclick while not monitoring
StartMonitorV21 ==
    /\ ~isRealTimeMode
    /\ session < limits.starts
    /\ \E rows \in Batches(topRow) :
          Commit(startRealTimeModeV21(Collector, rows, topRow, now))
    /\ UNCHANGED <<now, topRow, collectLoops, collectPasses, realtimeButtonDisabled, scroll, sheetDate, limits>>

\* v2.1 realtimeButton.onclick while monitoring
StopMonitorV21 ==
    /\ isRealTimeMode
    /\ Commit(stopRealTimeModeV21(Collector, FALSE))
    /\ UNCHANGED <<now, topRow, collectLoops, collectPasses, realtimeButtonDisabled, scroll, sheetDate, limits>>

\* a call comes in and heads the list; a connected observer is called back
\* and runs checkForNewMissedCalls, a disconnected one is not
ViewChangeV21 ==
    /\ domQueries < limits.obs
    /\ \E row \in NewCallRows(now) \ {topRow} :
          /\ topRow' = row
          /\ \E rows \in Batches(row) :
                Commit(IF realTimeObserver
                       THEN checkForNewMissedCalls(Collector, rows, now)
                       ELSE Collector)
    /\ UNCHANGED <<now, collectLoops, collectPasses, realtimeButtonDisabled, scroll, sheetDate, limits>>

\* the 2 s timer of v2.1: lastTopRecord first, then the check
TopRecordCheckV21 ==
    /\ topRecordCheckInterval
    /\ domQueries < limits.obs
    /\ topRow # NoRow
    /\ hasTopRecordChanged(Collector, getCurrentTopRecord(topRow))
    /\ \E rows \in Batches(topRow) :
          Commit(checkForNewMissedCalls(
                     [Collector EXCEPT !.lastTopRecord = getCurrentTopRecord(topRow)],
                     rows, now))
    /\ UNCHANGED <<now, topRow, collectLoops, collectPasses, realtimeButtonDisabled, scroll, sheetDate, limits>>

\* the 3 s timer of v2.1
FallbackPollV21 ==
    /\ realTimeInterval
    /\ domQueries < limits.obs
    /\ \E rows \in Batches(topRow) : Commit(checkForNewMissedCalls(Collector, rows, now))
    /\ UNCHANGED <<now, topRow, collectLoops, collectPasses, realtimeButtonDisabled, scroll, sheetDate, limits>>

\* one session over the hour after 2:00 PM, with calls at three readings of it
AnswerClock == {840, 855, 880, 900}

InitAnswers ==
    InitWith([obs |-> MaxObsLong, starts |-> 1, passes |-> MaxPasses,
              writes |-> {0}, clock |-> AnswerClock, texts |-> PlainTexts])

\* the real-time session without the timers that only read the same card again
NextAnswers ==
    \/ AdvanceClock
    \/ StartMonitor
    \/ StopMonitor
    \/ ViewChange
    \/ FallbackPoll

SpecAnswers == InitAnswers /\ [][NextAnswers]_vars

\* a session of the v2.1 collector
NextV21 ==
    \/ AdvanceClock
    \/ StartMonitorV21
    \/ StopMonitorV21
    \/ ViewChangeV21
    \/ TopRecordCheckV21
    \/ FallbackPollV21

InitV21 ==
    InitWith([obs |-> MaxObsLong, starts |-> MaxStarts, passes |-> MaxPasses,
              writes |-> {0}, clock |-> DeliveryClock, texts |-> PlainTexts])

SpecV21 == InitV21 /\ [][NextV21]_vars

-----------------------------------------------------------------------------
(* The bulk collection of v2.2, Script.user.js *)

\* isWithinTimeRange: the text starts with a time of day or with "Yesterday"
isWithinTimeRange(text) == text.form = "time" \/ text.form = "yesterday"

\* the body of the second loop of v2.2 collectRecords, for one card
CollectRowV22(c, row, lowerRowDates, clock) ==
    LET contact == separateContactInfo(row.sender).displayNumber
        timestamp == parseDateTimeWith(row.timestamp, lowerRowDates, clock)
    IN  IF row.index \in Range(c.processedIndexes) THEN c
        ELSE IF ~isMissedCallText(row.text) THEN AddIndex(c, row.index)
        ELSE IF ~isWithinTimeRange(row.timestamp) THEN AddIndex(c, row.index)
        ELSE IF timestamp = NoDate THEN c
        ELSE [AddIndex(c, row.index) EXCEPT
                 !.allRecords = Append(c.allRecords,
                                       CallRecord(timestamp, contact, row.index))]

RECURSIVE CollectRowsV22(_, _, _, _)
CollectRowsV22(c, rows, lowerRowDates, clock) ==
    IF Len(rows) = 0 THEN c
    ELSE CollectRowsV22(CollectRowV22(c, Head(rows), lowerRowDates, clock),
                        Tail(rows), lowerRowDates, clock)

\* v2.2 collectRecords over the rendered cards
collectRecordsV22(c, rows, clock) ==
    CollectRowsV22(c, rows, LowerRowDates(rows, clock), clock)

\* the cards the virtualised list renders at a scroll position, and the last
\* position it can be scrolled to (positions count cards)
Rendered(s) == SubSeq(s.list, s.scrollTop + 1, Min2(s.scrollTop + ViewCards, Len(s.list)))

Bottom(s) == IF Len(s.list) > ViewCards THEN Len(s.list) - ViewCards ELSE 0

\* the code after the loop: isCollecting = false, the final collectRecords and
\* downloadCSV, whose generateLegacyReport sorts allRecords in place
CollectFinishV22(c, rows, clock) ==
    LET final == collectRecordsV22([c EXCEPT !.isCollecting = FALSE], rows, clock)
    IN  [final EXCEPT !.allRecords = SortRecordsDesc(final.allRecords)]

\* one turn of `while (this.isCollecting)` of v2.2 autoScrollAndCollect, from
\* the test to the 300 ms setTimeout after scrollTo, or through `break` or a
\* failed test to the end of the method. startScrollTop and the scrollTop compared
\* with it are read in one task, with no frame in between.
LoopTurnV22(c, s, clock) ==
    LET rows == Rendered(s)
        startScrollTop == s.scrollTop
        foundAnyInTimeRange ==
            \E i \in 1..Len(rows) : isWithinTimeRange(rows[i].timestamp)
        collected == collectRecordsV22(c, rows, clock)
        count == IF ~foundAnyInTimeRange /\ s.scrollTop = startScrollTop
                 THEN s.unchangedScrollCount + 1 ELSE 0
        target == Min2(s.lastScrollTop + ScrollStep, Bottom(s))
    IN  IF ~c.isCollecting
        THEN [collector |-> CollectFinishV22(c, rows, clock),
              scroll |-> [s EXCEPT !.phase = "idle"], ended |-> TRUE]
        ELSE IF count >= UnchangedLimit
        THEN [collector |-> CollectFinishV22(collected, rows, clock),
              scroll |-> [s EXCEPT !.unchangedScrollCount = count, !.phase = "idle"],
              ended |-> TRUE]
        ELSE [collector |-> collected,
              scroll |-> [s EXCEPT !.unchangedScrollCount = count,
                                   !.scrollTop = target,
                                   !.phase = "scrolling"],
              ended |-> FALSE]

\* the timestamps of the cards of a list, newest first: of today, of
\* yesterday, then older ones
CardAges == <<"time", "yesterday", "bad">>

CardText(age, clock) ==
    CASE age = "time" -> ViewTimeText(clock)
      [] age = "yesterday" -> YesterdayText(clock)
      [] OTHER -> BadTimeText

AgeRank(text) == CHOOSE k \in 1..Len(CardAges) : CardAges[k] = text.form

\* the list loads one more card below the ones it has, no newer than those
ListGrows ==
    /\ Len(scroll.list) < MaxCards
    /\ \E k \in 1..Len(CardAges), text \in {"Missed call", "Incoming call answered by X"} :
          /\ Len(scroll.list) > 0 => k >= AgeRank(scroll.list[Len(scroll.list)].timestamp)
          /\ scroll' = [scroll EXCEPT
                           !.list = Append(scroll.list,
                                           [ index |-> CardIndexes[Len(scroll.list) + 1],
                                             sender |-> "(555)123-4567",
                                             text |-> text,
                                             timestamp |-> CardText(CardAges[k], now) ])]
    /\ UNCHANGED <<now, topRow, isRealTimeMode, isCollecting, allRecords, processedIndexes,
                   recentCalls, sentRecords, processedAnswers, pendingRequests,
                   monitorStartTime, realTimeMissedCount, realTimeObserver,
                   realTimeInterval, topRecordCheckInterval, lastTopRecord, storage,
                   requests, domQueries, session, setItemCalls, loadError, lastRows,
                   awaiting, caught, collectLoops, collectPasses,
                   realtimeButtonDisabled, sheetDate, limits>>

\* collectButton.onclick of v2.2 with nothing running: the stores are emptied,
\* autoScrollAndCollect sets isCollecting and makes the first turn of its loop
CollectStartV22 ==
    /\ ~isRealTimeMode
    /\ ~isCollecting
    /\ LET turn == LoopTurnV22([Collector EXCEPT !.allRecords = <<>>,
                                                 !.processedIndexes = <<>>,
                                                 !.isCollecting = TRUE],
                               [scroll EXCEPT !.lastScrollTop = 0,
                                              !.unchangedScrollCount = 0],
                               now)
       IN  /\ Commit(turn.collector)
           /\ scroll' = turn.scroll
    /\ collectLoops' = collectLoops + 1
    /\ realtimeButtonDisabled' = TRUE
    /\ UNCHANGED <<now, topRow, collectPasses, sheetDate, limits>>

\* the 300 ms after scrollTo are over: lastScrollTop is read from the container
\* and the loop waits another 500 ms
CollectSettleV22 ==
    /\ collectLoops > 0
    /\ scroll.phase = "scrolling"
    /\ scroll' = [scroll EXCEPT !.lastScrollTop = scroll.scrollTop, !.phase = "settling"]
    /\ UNCHANGED <<now, topRow, isRealTimeMode, isCollecting, allRecords, processedIndexes,
                   recentCalls, sentRecords, processedAnswers, pendingRequests,
                   monitorStartTime, realTimeMissedCount, realTimeObserver,
                   realTimeInterval, topRecordCheckInterval, lastTopRecord, storage,
                   requests, domQueries, session, setItemCalls, loadError, lastRows,
                   awaiting, caught, collectLoops, collectPasses,
                   realtimeButtonDisabled, sheetDate, limits>>

\* the 500 ms are over: the next turn, or the end of the loop and of the click
\* handler that awaited it
CollectAgainV22 ==
    /\ collectLoops > 0
    /\ scroll.phase = "settling"
    /\ LET turn == LoopTurnV22(Collector, scroll, now)
       IN  /\ Commit(turn.collector)
           /\ scroll' = turn.scroll
           /\ collectLoops' = IF turn.ended THEN collectLoops - 1 ELSE collectLoops
           /\ realtimeButtonDisabled' = IF turn.ended THEN FALSE ELSE realtimeButtonDisabled
    /\ UNCHANGED <<now, topRow, collectPasses, sheetDate, limits>>

\* a collection that the user starts and then leaves alone
NextScroll ==
    \/ ListGrows
    \/ CollectStartV22
    \/ CollectSettleV22
    \/ CollectAgainV22

InitScroll ==
    InitWith([obs |-> MaxObs, starts |-> 1, passes |-> MaxPasses,
              writes |-> {0}, clock |-> {840}, texts |-> PlainTexts])

\* a setTimeout of a suspended loop fires
SpecScroll ==
    InitScroll /\ [][NextScroll]_vars /\ WF_vars(CollectSettleV22) /\ WF_vars(CollectAgainV22)

-----------------------------------------------------------------------------
(* Dates through the sheet's format *)

\* the Dates explored: every hour of the days 0..MaxDay, at these minutes
DateMinutes == {0, 1, 30, 59}

Dates == {day * MinutesPerDay + hour * 60 + minute :
             day \in 0..MaxDay, hour \in 0..23, minute \in DateMinutes}

EngineUnchanged ==
    UNCHANGED <<now, topRow, isRealTimeMode, isCollecting, allRecords, processedIndexes,
                recentCalls, sentRecords, processedAnswers, pendingRequests,
                monitorStartTime, realTimeMissedCount, realTimeObserver,
                realTimeInterval, topRecordCheckInterval, lastTopRecord, storage,
                requests, domQueries, session, setItemCalls, loadError, lastRows,
                awaiting, caught, collectLoops, collectPasses,
                realtimeButtonDisabled, scroll, limits>>

\* formatDateTimeForSheet(date)
FormatDate ==
    /\ sheetDate.stage = "date"
    /\ sheetDate' = [sheetDate EXCEPT !.stage = "formatted",
                                      !.text = formatDateTimeForSheet(sheetDate.date)]
    /\ EngineUnchanged

\* parseAnyDateTime of the formatted text
ParseText ==
    /\ sheetDate.stage = "formatted"
    /\ sheetDate' = [sheetDate EXCEPT !.stage = "parsed",
                                      !.parsed = parseAnyDateTime(sheetDate.text)]
    /\ EngineUnchanged

NextDates ==
    \/ FormatDate
    \/ ParseText

InitDates ==
    /\ InitCollector([obs |-> MaxObs, starts |-> 1, passes |-> MaxPasses,
                      writes |-> {0}, clock |-> {840}, texts |-> PlainTexts])
    /\ \E date \in Dates :
          sheetDate = [NoSheetDate EXCEPT !.stage = "date", !.date = date]

SpecDates == InitDates /\ [][NextDates]_vars

\* a call comes in while the observer is connected, and the callback's
\* checkForNewCalls throws while it processes the card
ViewChangeThrows ==
    /\ realTimeObserver
    /\ domQueries < limits.obs
    /\ \E row \in NewCallRows(now) \ {topRow}, point \in ThrowPoints :
          LET c == checkForNewCallsThrowing(Collector, row, point, now)
          IN  /\ c.caught # ""
              /\ topRow' = row
              /\ Commit(c)
    /\ UNCHANGED <<now, collectLoops, collectPasses, realtimeButtonDisabled, scroll, sheetDate, limits>>

\* the session with checks that throw
NextThrows ==
    \/ AdvanceClock
    \/ StartMonitor
    \/ StopMonitor
    \/ ViewChange
    \/ ViewChangeThrows
    \/ FallbackPoll

InitThrows ==
    InitWith([obs |-> MaxObs, starts |-> 1, passes |-> MaxPasses,
              writes |-> WriteFailures, clock |-> DeliveryClock, texts |-> PlainTexts])

SpecThrows == InitThrows /\ [][NextThrows]_vars

\* the session with the calls of checkForNewCalls interleaved at their awaits
NextAwait ==
    \/ AdvanceClock
    \/ StartMonitor
    \/ StopMonitor
    \/ ViewChangeAwait
    \/ TopRecordCheckAwait
    \/ FallbackPollAwait
    \/ Resume

\* the calls are followed over the first part of the day: a suspended call goes
\* on within the same turn of the event loop, long before any key is 6 hours old
InitAwait ==
    InitWith([obs |-> MaxObsLong, starts |-> 1, passes |-> MaxPasses,
              writes |-> WriteFailures, clock |-> DeliveryClock, texts |-> PlainTexts])

SpecAwait == InitAwait /\ [][NextAwait]_vars

\* monitoring and one collection over cards of every text form
NextRows ==
    \/ AdvanceClock
    \/ StartMonitor
    \/ StopMonitor
    \/ ViewChange
    \/ FallbackPoll
    \/ CollectStart
    \/ CollectEnd

InitRows ==
    InitWith([obs |-> MaxObs, starts |-> 1, passes |-> 1,
              writes |-> {0}, clock |-> BulkClock, texts |-> AllTexts])

SpecRows == InitRows /\ [][NextRows]_vars

\* Rows of a long list, newest first, a minute apart: the first `missed` of
\* them missed calls, alternately from the two senders, the rest outgoing calls
LedgerRows(n, missed, clock) ==
    [i \in 1..n |->
        [ index |-> IndexTexts[i - 1],
          sender |-> IF i % 2 = 1 THEN "(555)123-4567" ELSE "(555)987-6543",
          text |-> IF i <= missed THEN "Missed call" ELSE "Outgoing call",
          timestamp |-> ViewTimeText(clock - i) ]]

\* the collector a page starts with when nothing is stored
NewCollector ==
    [ isRealTimeMode |-> FALSE, isCollecting |-> FALSE,
      allRecords |-> <<>>, processedIndexes |-> <<>>,
      recentCalls |-> [p \in PhoneKeys |-> <<>>], sentRecords |-> <<>>,
      processedAnswers |-> <<>>, pendingRequests |-> {},
      monitorStartTime |-> NoDate, realTimeMissedCount |-> 0,
      realTimeObserver |-> FALSE, realTimeInterval |-> FALSE,
      topRecordCheckInterval |-> FALSE, lastTopRecord |-> NoTop,
      storage |-> NoStorage, requests |-> <<>>, domQueries |-> 0,
      session |-> 0, setItemCalls |-> 0, loadError |-> "", lastRows |-> <<>>,
      awaiting |-> <<>>, caught |-> "" ]

\* How many rows the collected list has, and how many of them are missed calls
LedgerSizes == CleanupIndexCap..(CleanupIndexCap + MaxExtraRows)
LedgerMissed == {1} \cup (SaveRecordCap + 1)..(SaveRecordCap + MaxExtraRows)

\* a page on which a collection has gone through a long list and ended
CollectedPage(n, missed, clock) ==
    LET rows == LedgerRows(n, missed, clock)
    IN  [collector |-> CollectFinish(NewCollector, rows, clock), top |-> rows[1]]

\* What a long monitoring session sees, a call a minute: k calls of the second
\* sender that are answered, then k calls of the first sender that are missed
SessionRows(k, start) ==
    [i \in 1..(2 * k) |->
        [ row |-> [ index |-> "0",
                    sender |-> IF i <= k THEN "(555)987-6543" ELSE "(555)123-4567",
                    text |-> IF i <= k THEN "Incoming call answered by X" ELSE "Missed call",
                    timestamp |-> ViewTimeText(start + i) ],
          clock |-> start + i ]]

\* checkForNewCalls for each of the rows in turn, every write succeeding
\* (the CASE guard has the first half evaluated before the rest is entered)
RECURSIVE observeRows(_, _)
observeRows(c, seen) ==
    IF Len(seen) = 0 THEN c
    ELSE IF Len(seen) = 1 THEN checkForNewCalls(c, seen[1].row, 0, seen[1].clock)
    ELSE LET first == observeRows(c, SubSeq(seen, 1, Len(seen) \div 2))
         IN  CASE first.isRealTimeMode \in BOOLEAN ->
                    observeRows(first, SubSeq(seen, Len(seen) \div 2 + 1, Len(seen)))

\* a page that has been monitoring since `clock - 2k - 1` and has seen 2k calls
SessionPage(k, clock) ==
    LET start == clock - 2 * k - 1
        seen == SessionRows(k, start)
    IN  [ collector |-> observeRows(startRealTimeMode(NewCollector, NoRow, start), seen),
          top |-> seen[2 * k].row ]

\* How many calls of each kind the session has seen
SessionSizes == SaveSentCap..(SaveSentCap + MaxExtraRows)

LedgerPages(clock) ==
    {CollectedPage(n, missed, clock) : n \in LedgerSizes, missed \in LedgerMissed}
        \cup {SessionPage(k, clock) : k \in SessionSizes}

\* a page with a long history: MaxObs more rows are observed on it
InitLedger ==
    /\ now = 840
    /\ collectLoops = 0
    /\ collectPasses = 0
    /\ realtimeButtonDisabled = FALSE
    /\ scroll = NoScroll
    /\ sheetDate = NoSheetDate
    /\ \E page \in LedgerPages(now) :
          LET c == page.collector
          IN  /\ limits = [obs |-> c.domQueries + MaxObs, starts |-> 1, passes |-> MaxPasses,
                           writes |-> WriteFailures, clock |-> BulkClock,
                           texts |-> PlainTexts]
              /\ topRow = page.top
              /\ isRealTimeMode = c.isRealTimeMode
              /\ isCollecting = c.isCollecting
              /\ allRecords = c.allRecords
              /\ processedIndexes = c.processedIndexes
              /\ recentCalls = c.recentCalls
              /\ sentRecords = c.sentRecords
              /\ processedAnswers = c.processedAnswers
              /\ pendingRequests = c.pendingRequests
              /\ monitorStartTime = c.monitorStartTime
              /\ realTimeMissedCount = c.realTimeMissedCount
              /\ realTimeObserver = c.realTimeObserver
              /\ realTimeInterval = c.realTimeInterval
              /\ topRecordCheckInterval = c.topRecordCheckInterval
              /\ lastTopRecord = c.lastTopRecord
              /\ storage = c.storage
              /\ requests = c.requests
              /\ domQueries = c.domQueries
              /\ session = c.session
              /\ setItemCalls = 0
              /\ loadError = c.loadError
              /\ lastRows = <<>>
              /\ awaiting = <<>>
              /\ caught = ""

\* the page goes away, with its beforeunload listener run (unloaded) or without
\* (the tab or the browser is killed), and is loaded again: the script
\* constructs a new collector, which reads the stored item, as saved or damaged
Reload ==
    /\ \E unloaded \in BOOLEAN, damaged \in Damages \cup {""} :
          Commit(constructor(IF unloaded THEN destroy(Collector) ELSE Collector, damaged))
    /\ collectLoops' = 0
    /\ realtimeButtonDisabled' = FALSE
    /\ UNCHANGED <<now, topRow, collectPasses, scroll, sheetDate, limits>>

NextStore ==
    \/ AdvanceClock
    \/ StartMonitor
    \/ StopMonitor
    \/ ViewChange
    \/ FallbackPoll
    \/ CleanupTick
    \/ Reload

\* one monitoring session in which setItem can throw several times in a row
InitStore ==
    InitWith([obs |-> MaxObs, starts |-> 1, passes |-> MaxPasses,
              writes |-> 0..MaxWriteFailures, clock |-> BulkClock, texts |-> PlainTexts])

SpecStore == InitStore /\ [][NextStore]_vars

SpecLedger == InitLedger /\ [][NextStore]_vars

\* How many times the 5 s timer has read the same card again
PollCounts == (WindowCap - 3)..(WindowCap - 2)

\* the rows a polled session has read: the answered call of 2:15 PM, then the
\* 2:40 PM call of the same number, read once and again by `polls` timer ticks
PolledRows(polls) ==
    [i \in 1..(polls + 2) |->
        [ row |-> [ index |-> "0",
                    sender |-> "(555)123-4567",
                    text |-> IF i = 1 THEN "Incoming call answered by X" ELSE "Missed call",
                    timestamp |-> ViewTimeText(IF i = 1 THEN 855 ELSE 880) ],
          clock |-> IF i = 1 THEN 855 ELSE 880 ]]

\* a page that has been monitoring since 2:00 PM and has read those rows
PolledPage(polls) ==
    LET seen == PolledRows(polls)
    IN  [ collector |-> observeRows(startRealTimeMode(NewCollector, NoRow, 840), seen),
          top |-> seen[Len(seen)].row ]

\* one session in which the 5 s timer reads the same card many times
InitPolls ==
    /\ now = 880
    /\ collectLoops = 0
    /\ collectPasses = 0
    /\ realtimeButtonDisabled = FALSE
    /\ scroll = NoScroll
    /\ sheetDate = NoSheetDate
    /\ \E polls \in PollCounts :
          LET page == PolledPage(polls)
              c == page.collector
          IN  /\ limits = [obs |-> c.domQueries + MaxObsLong, starts |-> 1,
                           passes |-> MaxPasses, writes |-> {0}, clock |-> AnswerClock,
                           texts |-> PlainTexts]
              /\ topRow = page.top
              /\ isRealTimeMode = c.isRealTimeMode
              /\ isCollecting = c.isCollecting
              /\ allRecords = c.allRecords
              /\ processedIndexes = c.processedIndexes
              /\ recentCalls = c.recentCalls
              /\ sentRecords = c.sentRecords
              /\ processedAnswers = c.processedAnswers
              /\ pendingRequests = c.pendingRequests
              /\ monitorStartTime = c.monitorStartTime
              /\ realTimeMissedCount = c.realTimeMissedCount
              /\ realTimeObserver = c.realTimeObserver
              /\ realTimeInterval = c.realTimeInterval
              /\ topRecordCheckInterval = c.topRecordCheckInterval
              /\ lastTopRecord = c.lastTopRecord
              /\ storage = c.storage
              /\ requests = c.requests
              /\ domQueries = c.domQueries
              /\ session = c.session
              /\ setItemCalls = 0
              /\ loadError = c.loadError
              /\ lastRows = <<>>
              /\ awaiting = <<>>
              /\ caught = ""

NextPolls ==
    \/ AdvanceClock
    \/ StopMonitor
    \/ ViewChange
    \/ FallbackPoll

SpecPolls == InitPolls /\ [][NextPolls]_vars


-----------------------------------------------------------------------------
(* Reading a step: what a handler enqueued and which answers it reconciled *)

\* the requests a step enqueued
NewRequests == SubSeq(requests', Len(requests) + 1, Len(requests'))

\* the row a step handed to checkForNewCalls, if it handed one
CheckedRows == IF domQueries' = domQueries + 1 /\ topRow' # NoRow THEN {topRow'} ELSE {}

\* the Answered events (phone, minute) after the monitor start a step observed
StepAnswers ==
    { <<extractPhoneNumber(separateContactInfo(row.sender).displayNumber),
        parseDateTime(row.timestamp, now)>> :
      row \in { r \in CheckedRows :
                  /\ isRealTimeMode
                  /\ isAnsweredCallText(r.text)
                  /\ parseDateTime(r.timestamp, now) # NoDate
                  /\ parseDateTime(r.timestamp, now) > monitorStartTime } }

\* those of them not reconciled before
NewAnswerKeys == StepAnswers \ Range(processedAnswers)

\* the update requests a step enqueued for the record of contact at timestamp
NewUpdatesFor(contact, timestamp) ==
    { i \in 1..Len(NewRequests) :
        /\ NewRequests[i].kind = "update"
        /\ NewRequests[i].data.isUpdate
        /\ NewRequests[i].data.actualMissedCall = "No"
        /\ NewRequests[i].record = [contact |-> contact, timestamp |-> timestamp] }

\* a create request of the current session for the record
CreateEnqueued(record) ==
    \E i \in 1..Len(requests) :
        /\ requests[i].kind = "create"
        /\ requests[i].session = session
        /\ requests[i].record = [contact |-> record.contact, timestamp |-> record.timestamp]

\* record i is a missed call of the phone, earlier than the answer by d minutes, 0 < d
MissedBefore(i, answerKey) ==
    /\ extractPhoneNumber(allRecords[i].contact) = answerKey[1]
    /\ allRecords[i].timestamp < answerKey[2]
    /\ CreateEnqueued(allRecords[i])

-----------------------------------------------------------------------------
(* Reconciliation claims *)

ReconciledBefore(answerKey) ==
    \E i \in 1..Len(requests) :
        /\ requests[i].kind = "update"
        /\ requests[i].session = session
        /\ requests[i].data.phoneNumber = answerKey[1]
        /\ requests[i].data.answerTime = formatDateTimeForSheet(answerKey[2])

\* C3: a step that observes an Answered row whose minute bucket was already
\* reconciled in this session enqueues no further update request, whichever
\* trigger observes it and however often.
C3_NoRepeatedUpdates ==
    [][\A k \in StepAnswers :
          ReconciledBefore(k) =>
             \A i \in 1..Len(NewRequests) : NewRequests[i].kind # "update"
      ]_vars

-----------------------------------------------------------------------------
(* Real-time path claims *)

\* the Missed rows after the monitor start a step observed, as (contact, minute, phone)
StepMissed ==
    { [ contact |-> separateContactInfo(row.sender).displayNumber,
        timestamp |-> parseDateTime(row.timestamp, now),
        phoneNumber |-> extractPhoneNumber(separateContactInfo(row.sender).displayNumber),
        dataIndex |-> row.index ] :
      row \in { r \in CheckedRows :
                  /\ isRealTimeMode
                  /\ isMissedCallText(r.text)
                  /\ ~isAnsweredCallText(r.text)
                  /\ parseDateTime(r.timestamp, now) # NoDate
                  /\ parseDateTime(r.timestamp, now) > monitorStartTime } }

Stored(contact, timestamp) ==
    \E i \in 1..Len(allRecords) :
        allRecords[i].contact = contact /\ allRecords[i].timestamp = timestamp

\* the phone's window holds an Answered entry within one hour of the minute
AnsweredWithinHour(phoneNumber, timestamp) ==
    \E i \in 1..Len(recentCalls[phoneNumber]) :
        /\ recentCalls[phoneNumber][i].isAnswered
        /\ recentCalls[phoneNumber][i].time >= timestamp - OneHour
        /\ recentCalls[phoneNumber][i].time <= timestamp + OneHour

-----------------------------------------------------------------------------
(* Stop claims *)

\* C8: when stopRealTimeMode has returned the observer is disconnected, both
\* timers are cancelled and pendingRequests is empty, and from then until the next
\* start no trigger runs checkForNewCalls and no request is enqueued.
C8_StoppedIsQuiet ==
    /\ [](~isRealTimeMode =>
            /\ ~realTimeObserver
            /\ ~realTimeInterval
            /\ ~topRecordCheckInterval
            /\ pendingRequests = {})
    /\ [][~isRealTimeMode =>
            /\ domQueries' = domQueries
            /\ Len(requests') = Len(requests)
         ]_vars

\* monitoring was stopped with requests in flight and a new call heads the list
C8_Witness ==
    /\ ~isRealTimeMode
    /\ session >= 1
    /\ \E i \in 1..Len(requests) : requests[i].stopped /\ requests[i].state = "inflight"
    /\ topRow # NoRow
    /\ topRow.text = "Missed call"
    /\ parseDateTime(topRow.timestamp, now) = now
    /\ \A i \in 1..Len(requests) : requests[i].record.timestamp < now

-----------------------------------------------------------------------------
(* Delivery claims *)

\* the requests whose onload ran in a step
Responded ==
    { i \in 1..Len(requests) :
        /\ requests[i].state = "inflight"
        /\ requests'[i].state \in {"ok", "rejected", "ignored"} }

\* C7: when the response of a request arrives and monitoring was stopped since
\* the request was enqueued, the handler takes the ignore branch and changes none
\* of records, sent ledger, window, processed answers and pending set; also when
\* monitoring has been started again before the response arrives.
C7_StaleResponseIgnored ==
    [][\A i \in Responded :
          requests[i].stopped =>
             /\ requests'[i].state = "ignored"
             /\ UNCHANGED <<allRecords, sentRecords, recentCalls, processedAnswers,
                            pendingRequests>>
      ]_vars

FailedStates == {"rejected", "error", "timeout"}

\* C10: a step never enqueues a create for a record whose create of the same
\* session has failed (error, timeout or a status other than 200), although the
\* row of the record is observed again.
C10_NoCreateRetry ==
    [][\A i \in 1..Len(NewRequests) : \A j \in 1..Len(requests) :
          ~ ( /\ NewRequests[i].kind = "create"
              /\ requests[j].kind = "create"
              /\ requests[j].state \in FailedStates
              /\ requests[j].session = NewRequests[i].session
              /\ requests[j].record = NewRequests[i].record )
      ]_vars

\* the create of the record of the top row failed and the row was checked again
\* afterwards, during the same session
C10_Witness ==
    /\ isRealTimeMode
    /\ topRow # NoRow
    /\ isMissedCallText(topRow.text)
    /\ \E j \in 1..Len(requests) :
          /\ requests[j].kind = "create"
          /\ requests[j].state \in FailedStates
          /\ requests[j].session = session
          /\ requests[j].record.contact = separateContactInfo(topRow.sender).displayNumber
          /\ requests[j].record.timestamp = parseDateTime(topRow.timestamp, now)
          /\ requests[j].checksBefore < domQueries
          /\ Stored(requests[j].record.contact, requests[j].record.timestamp)


-----------------------------------------------------------------------------
(* Dedup claims *)

\* the records of a (contact, timestamp, data-index) in a list of records
RecordsOf(records, contact, timestamp, dataIndex) ==
    { i \in 1..Len(records) :
        /\ records[i].contact = contact
        /\ records[i].timestamp = timestamp
        /\ records[i].dataIndex = dataIndex }

\* the create requests of the log for a record
CreatesOf(contact, timestamp) ==
    { j \in 1..Len(requests) :
        /\ requests[j].kind = "create"
        /\ requests[j].record = [contact |-> contact, timestamp |-> timestamp] }

BulkStep == collectPasses' # collectPasses \/ collectLoops' # collectLoops

\* the first step of a loop, which empties allRecords and processedIndexes
BulkFirstStep == BulkStep /\ ~isCollecting /\ isCollecting'

RecordsAtIndex(records, dataIndex) ==
    Cardinality({i \in 1..Len(records) : records[i].dataIndex = dataIndex})

C5_UniqueRecords ==
    \A i, j \in 1..Len(allRecords) :
        (i # j) =>
           ~ ( /\ allRecords[i].contact = allRecords[j].contact
               /\ allRecords[i].timestamp = allRecords[j].timestamp )


\* record i is stored and its create of the current session has failed
CreateFailed(i) ==
    \E j \in 1..Len(requests) :
        /\ requests[j].kind = "create"
        /\ requests[j].state \in FailedStates
        /\ requests[j].session = session
        /\ requests[j].record = [contact |-> allRecords[i].contact,
                                 timestamp |-> allRecords[i].timestamp]

InLedger(i) ==
    \E e \in 1..Len(sentRecords) :
        sentRecords[e].key = <<extractPhoneNumber(allRecords[i].contact),
                               allRecords[i].timestamp>>

-----------------------------------------------------------------------------
(* State store claims *)

\* C12: a handler whose persistence write fails runs one eviction pass and
\* retries the write at most once: it calls localStorage.setItem at most twice.
C12_AtMostOneRetry == setItemCalls <= 1 + 1


EmptyStores ==
    /\ allRecords = <<>>
    /\ processedIndexes = <<>>
    /\ realTimeMissedCount = 0
    /\ monitorStartTime = NoDate
    /\ sentRecords = <<>>
    /\ processedAnswers = <<>>

\* C13: when the stored item is unreadable or malformed in any field, the load
\* leaves every in-memory structure in its empty initial state.
C13_AllOrNothing == loadError # "" => EmptyStores


\* a step of the cleanup timer: it writes the stored item and observes no row
CleanupStep == setItemCalls' > 0 /\ domQueries' = domQueries

\* C14: a performanceCleanup that finds more than 500 processed indexes leaves
\* at most 500 of them.
C14_IndexCap ==
    [][(CleanupStep /\ Len(processedIndexes) > CleanupIndexCap)
          => Len(processedIndexes') <= CleanupIndexCap]_vars

\* a cleanup has cut a longer set down to the cap: the set holds exactly 500
\* indexes in descending order, which only the cleanup's sort produces
C14_Witness ==
    /\ setItemCalls > 0
    /\ Len(processedIndexes) = CleanupIndexCap
    /\ IndexNumber(processedIndexes[1]) > IndexNumber(processedIndexes[CleanupIndexCap])


\* C15: the eviction of processed indexes never removes the index of a
\* CallRecord whose call is less than 1 hour old.
C15_KeepsRecentIndexes ==
    [][CleanupStep =>
          \A i \in 1..Len(allRecords) :
              (/\ allRecords[i].dataIndex \in Range(processedIndexes)
               /\ allRecords[i].timestamp > now - OneHour)
              => allRecords[i].dataIndex \in Range(processedIndexes')]_vars


\* C16: after every eviction pass the sent ledger holds at most 50 entries.
C16_SentBound == [][CleanupStep => Len(sentRecords') <= SaveSentCap]_vars


\* stored holds at most cap elements, and they are the elements that come
\* last in the order of insertion of the structure held in memory (the array
\* order of allRecords, the iteration order of a Set or Map; the Set that
\* performanceCleanup builds is filled in descending order of index)
NewestOf(stored, held, cap) ==
    /\ Len(stored) <= cap
    /\ Len(stored) = Min2(Len(held), cap)
    /\ \A j \in 1..Len(stored) : stored[j] = held[Len(held) - Len(stored) + j]

\* C17: a step that writes the stored item leaves in it at most 100 records,
\* 300 processed indexes, 50 sent entries and 50 answer keys, each time the
\* most recently inserted elements of the structure in memory.
C17_SnapshotCaps ==
    [][setItemCalls' > 0 =>
          /\ storage'.present
          /\ NewestOf(storage'.records, allRecords', SaveRecordCap)
          /\ NewestOf(storage'.processedIndexes, processedIndexes', SaveIndexCap)
          /\ NewestOf(storage'.sentRecords, sentRecords', SaveSentCap)
          /\ NewestOf(storage'.processedAnswers, processedAnswers', SaveAnswerCap)]_vars

\* a write has just cut a structure that holds more than its cap
C17_Witness ==
    /\ setItemCalls > 0
    /\ storage.present
    /\ \/ /\ Len(allRecords) > SaveRecordCap
          /\ Len(processedIndexes) > SaveIndexCap
          /\ Len(storage.records) = SaveRecordCap
          /\ Len(storage.processedIndexes) = SaveIndexCap
       \/ /\ Len(sentRecords) > SaveSentCap
          /\ Len(processedAnswers) > SaveAnswerCap
          /\ Len(storage.sentRecords) = SaveSentCap
          /\ Len(storage.processedAnswers) = SaveAnswerCap


-----------------------------------------------------------------------------
(* Reconciliation claims on a long session *)

\* the update requests a step enqueued
NewUpdates == {i \in 1..Len(NewRequests) : NewRequests[i].kind = "update"}

\* the records an answer finds as candidates: missed calls of its phone, less
\* than an hour before it, with the sent status in the ledger
CandidatesOf(answerKey) ==
    { i \in 1..Len(allRecords) :
        /\ MissedBefore(i, answerKey)
        /\ answerKey[2] - allRecords[i].timestamp < OneHour
        /\ InLedger(i) }

\* the update requests of the log that carry the answer
UpdatesOf(answerKey) ==
    { j \in 1..Len(requests) :
        /\ requests[j].kind = "update"
        /\ requests[j].data.phoneNumber = answerKey[1]
        /\ requests[j].data.answerTime = formatDateTimeForSheet(answerKey[2]) }

\* C18: a step that processes an Answered row enqueues at most 3 update
\* requests, however many records are candidates.
C18_AtMostThreeUpdates ==
    [][\A k \in StepAnswers : Cardinality(NewUpdates) <= MaxUpdatesPerAnswer]_vars

\* an answer with more than 3 candidates has been processed and has 3 updates
C18_Witness ==
    \E k \in Range(processedAnswers) :
        /\ Cardinality(CandidatesOf(k)) > MaxUpdatesPerAnswer
        /\ Cardinality(UpdatesOf(k)) = MaxUpdatesPerAnswer


\* C19: the record an update request is enqueued for has its isAnswered flag
\* set after the step.
C19_CandidateFlagged ==
    [][\A j \in 1..Len(NewRequests) :
          NewRequests[j].kind = "update" =>
             \A i \in 1..Len(allRecords') :
                 (/\ allRecords'[i].contact = NewRequests[j].record.contact
                  /\ allRecords'[i].timestamp = NewRequests[j].record.timestamp)
                 => allRecords'[i].isAnswered]_vars


\* C20: a step that observes an Answered row whose answerKey is already in
\* processedAnswers changes neither allRecords, sentRecords, processedAnswers
\* nor the recent-call window of the row's phone.
C20_ReobservedAnswerNoOp ==
    [][\A k \in StepAnswers \cap Range(processedAnswers) :
          /\ UNCHANGED <<allRecords, sentRecords, processedAnswers>>
          /\ recentCalls'[k[1]] = recentCalls[k[1]]]_vars


-----------------------------------------------------------------------------
(* Recent-call window claims *)

\* the window entries a step of checkForNewCalls appends: one for the row it
\* was handed, if the row's time parses and lies after the monitor start
StepTracked ==
    { [ phoneNumber |-> extractPhoneNumber(separateContactInfo(row.sender).displayNumber),
        entry |-> [ time |-> parseDateTime(row.timestamp, now),
                    isMissed |-> isMissedCallText(row.text),
                    isAnswered |-> isAnsweredCallText(row.text) ] ] :
      row \in { r \in CheckedRows :
                  /\ parseDateTime(r.timestamp, now) # NoDate
                  /\ (monitorStartTime # NoDate
                        => parseDateTime(r.timestamp, now) > monitorStartTime) } }

\* shorter is the end of longer
IsSuffix(shorter, longer) ==
    /\ Len(shorter) <= Len(longer)
    /\ \A j \in 1..Len(shorter) : shorter[j] = longer[Len(longer) - Len(shorter) + j]

\* the entries of the window and the new one that are less than 2 hours old
InHorizonWith(window, entry) ==
    SelectSeq(Append(window, entry), LAMBDA call : call.time > now - TwoHours)

\* C21: a window never holds more than 10 entries, and a step that appends an
\* entry leaves the most recently appended in-horizon entries: the end of the
\* in-horizon entries, the new one last, 10 of them when there are that many
\* (fewer only when a failed write ran the cleanup in the same step).
C21_WindowCap ==
    /\ [](\A p \in PhoneKeys : Len(recentCalls[p]) <= WindowCap)
    /\ [][\A t \in StepTracked :
             LET kept == InHorizonWith(recentCalls[t.phoneNumber], t.entry)
                 after == recentCalls'[t.phoneNumber]
             IN  /\ IsSuffix(after, kept)
                 /\ setItemCalls' <= 1 => Len(after) = Min2(Len(kept), WindowCap)]_vars

\* a window that was full has taken one more entry and is full again
C21_Witness ==
    \E p \in PhoneKeys :
        /\ Len(recentCalls[p]) = WindowCap
        /\ recentCalls[p][WindowCap].time = now
        /\ recentCalls[p][WindowCap - 1].time < now
        /\ domQueries > limits.obs - MaxObs
        /\ Cardinality({i \in 1..Len(allRecords) :
                          /\ extractPhoneNumber(allRecords[i].contact) = p
                          /\ allRecords[i].timestamp > now - TwoHours}) > WindowCap


\* C22: the entries of every recent-call window are in non-decreasing order
\* of their time.
C22_WindowOrdered ==
    \A p \in PhoneKeys :
        \A i, j \in 1..Len(recentCalls[p]) :
            i < j => recentCalls[p][i].time <= recentCalls[p][j].time


\* no entry of the window is older than the 2-hour horizon
WindowFresh(window, clock) ==
    \A i \in 1..Len(window) : window[i].time >= clock - TwoHours

\* C23 as the specification states it: in every state, also one reached by
\* the passage of time alone, no window entry is older than 2 hours.
C23_AsStated == \A p \in PhoneKeys : WindowFresh(recentCalls[p], now)

\* C23: right after updateRecentCalls has recorded an entry for a phone, that
\* phone's window holds no entry older than 2 hours, and right after a
\* performanceCleanup no window does.
C23_FreshAfterPrune ==
    [][/\ \A t \in StepTracked : WindowFresh(recentCalls'[t.phoneNumber], now)
       /\ CleanupStep => \A p \in PhoneKeys : WindowFresh(recentCalls'[p], now)]_vars

\* a cleanup has emptied the window of a phone whose call of this session is
\* two hours old or older
C23_Witness ==
    /\ isRealTimeMode
    /\ setItemCalls > 0
    /\ \E i \in 1..Len(allRecords) :
          /\ allRecords[i].timestamp <= now - TwoHours
          /\ allRecords[i].timestamp > monitorStartTime
          /\ recentCalls[extractPhoneNumber(allRecords[i].contact)] = <<>>


\* The times isActualMissedCall is asked about: every clock reading
ProbeTimes == ClockValues \cup CallTimes

\* the distance in minutes between two times
Apart(a, b) == IF a < b THEN b - a ELSE a - b

\* the Answered entries of a window
AnsweredIn(window) == {i \in 1..Len(window) : window[i].isAnswered}

\* C24: for the window of any phone and any time T, isActualMissedCall says
\* "No" when the window holds an Answered entry less than 1 hour before or
\* after T, and "Yes" when every Answered entry of the window is more than
\* 1 hour away from T, whatever else that window or another one holds.
C24_AnsweredNear ==
    \A p \in PhoneKeys : \A T \in ProbeTimes :
        LET window == recentCalls[p]
        IN  /\ (\E i \in AnsweredIn(window) : Apart(window[i].time, T) < OneHour)
                  => isActualMissedCall(window, T) = "No"
            /\ (\A i \in AnsweredIn(window) : Apart(window[i].time, T) > OneHour)
                  => isActualMissedCall(window, T) = "Yes"

\* a create request went out with "No", and a window holds an Answered entry
\* that lies after one probe time by less than an hour and away from another
\* by more, where an entry that is not Answered lies within the hour
C24_Witness ==
    /\ \E j \in 1..Len(requests) :
          requests[j].kind = "create" /\ requests[j].data.actualMissedCall = "No"
    /\ \E p \in PhoneKeys : \E T1, T2 \in ProbeTimes :
          LET window == recentCalls[p]
          IN  /\ \E i \in AnsweredIn(window) :
                    window[i].time > T1 /\ window[i].time - T1 < OneHour
              /\ isActualMissedCall(window, T1) = "No"
              /\ AnsweredIn(window) # {}
              /\ \A i \in AnsweredIn(window) : Apart(window[i].time, T2) > OneHour
              /\ \E i \in 1..Len(window) :
                    ~window[i].isAnswered /\ Apart(window[i].time, T2) < OneHour
              /\ isActualMissedCall(window, T2) = "Yes"


\* a card whose timestamp text no strategy resolves
Unparseable(row) ==
    /\ parseDateTime(row.timestamp, now) = NoDate
    /\ parseAnyDateTime(row.timestamp) = NoDate

\* the step is the last pass of a collection, over the cards of lastRows'
EndPass == collectLoops' < collectLoops /\ Len(lastRows') > 0

\* the engine's stores hold after the step what they held before it (the
\* records as a collection: a pass ends with a sort)
StoresUntouched ==
    /\ Len(allRecords') = Len(allRecords)
    /\ Range(allRecords') = Range(allRecords)
    /\ processedIndexes' = processedIndexes
    /\ recentCalls' = recentCalls
    /\ sentRecords' = sentRecords
    /\ processedAnswers' = processedAnswers

\* C25: processing a card whose timestamp text cannot be parsed, in the
\* real-time check or in a pass of collectRecords, creates no record, enqueues
\* no request and leaves allRecords, processedIndexes, recentCalls,
\* sentRecords and processedAnswers as they were.
C25_UnparseableNoEffect ==
    [][/\ \A row \in CheckedRows :
             Unparseable(row) => StoresUntouched /\ requests' = requests
       /\ (EndPass /\ \A i \in 1..Len(lastRows') : Unparseable(lastRows'[i]))
             => StoresUntouched /\ requests' = requests]_vars



\* C26: the real-time check of a card whose text indicates neither a missed
\* nor an answered call creates no record, enqueues no request and appends no
\* entry to any recent-call window.
C26_OtherRowsNoEvent ==
    [][\A row \in CheckedRows :
          (~isMissedCallText(row.text) /\ ~isAnsweredCallText(row.text))
             => /\ allRecords' = allRecords
                /\ requests' = requests
                /\ recentCalls' = recentCalls]_vars


\* a card of a missed call labelled "Yesterday H:MM"
YesterdayMissed(row) == row.timestamp.form = "yesterday" /\ isMissedCallText(row.text)

\* some other card of the list carries a date of today
TodaySibling(row, rows) ==
    \E j \in 1..Len(rows) :
        /\ rows[j] # row
        /\ parseDateTime(rows[j].timestamp, now) # NoDate
        /\ SameDay(parseDateTime(rows[j].timestamp, now), now)

\* the time the card stands for: H:MM of the day before, or of today when a
\* sibling carries today's date
ResolvedTime(row, rows) ==
    LET today == now - (now % MinutesPerDay)
        minute == Hours24(row.timestamp) * 60 + row.timestamp.m
    IN  IF TodaySibling(row, rows) THEN today + minute
        ELSE today - MinutesPerDay + minute

\* the step is the first pass of a collection
StartPass == collectLoops' > collectLoops

\* the records at a data-index that the step has created
CreatedAt(dataIndex) ==
    { r \in Range(allRecords') : r.dataIndex = dataIndex }
       \ (IF StartPass THEN {} ELSE Range(allRecords))

\* C27 in a pass of collectRecords: the record made of a "Yesterday H:MM"
\* missed card is timed on the previous day, or today at H:MM when a sibling
\* card of the pass carries today's date.
BulkResolvesYesterday ==
    BulkStep =>
       \A i \in 1..Len(lastRows') :
          YesterdayMissed(lastRows'[i]) =>
             /\ \A r \in CreatedAt(lastRows'[i].index) :
                    r.timestamp = ResolvedTime(lastRows'[i], lastRows')
             /\ StartPass => CreatedAt(lastRows'[i].index) # {}

\* C27 in the real-time check: a "Yesterday H:MM" missed card that comes in
\* with a sibling of today is timed today at H:MM, and is recorded as such
\* when that time is after the start of monitoring and not yet recorded.
RealTimeResolvesYesterday ==
    \A row \in CheckedRows :
       (YesterdayMissed(row) /\ Len(lastRows') > 0 /\ TodaySibling(row, lastRows')) =>
          LET timestamp == ResolvedTime(row, lastRows')
              contact == separateContactInfo(row.sender).displayNumber
          IN  (monitorStartTime # NoDate /\ timestamp > monitorStartTime)
                 => \E r \in Range(allRecords') :
                        r.contact = contact /\ r.timestamp = timestamp

\* C27: a missed card labelled "Yesterday H:MM" resolves to the previous day
\* unless a sibling card of the same batch carries today's date, and then to
\* today at H:MM, in a pass of collectRecords as well as in the real-time check.
C27_YesterdayOverride ==
    [][BulkResolvesYesterday /\ RealTimeResolvesYesterday]_vars


\* the requests of one kind in the log
RequestsOfKind(kind) == {j \in 1..Len(requests) : requests[j].kind = kind}

\* C28: every update request carries the lookup fields of the create request
\* of its record, which went out before it: the same dateTime, the formatted
\* time of the missed call and not that of the answer, the same normalized
\* phoneNumber and the same display number.
C28_SameLookupKey ==
    \A u \in RequestsOfKind("update") :
        /\ \E k \in RequestsOfKind("create") :
              k < u /\ requests[k].record = requests[u].record
        /\ \A k \in RequestsOfKind("create") :
              requests[k].record = requests[u].record
                 => /\ requests[u].data.dateTime = requests[k].data.dateTime
                    /\ requests[u].data.phoneNumber = requests[k].data.phoneNumber
                    /\ requests[u].data.number = requests[k].data.number
        /\ requests[u].data.dateTime = formatDateTimeForSheet(requests[u].record.timestamp)

\* an update went out for a record missed at one minute and answered at a
\* later one
C28_Witness ==
    \E u \in RequestsOfKind("update") :
        /\ requests[u].data.answerTime # requests[u].data.dateTime
        /\ \E k \in RequestsOfKind("create") :
              /\ requests[k].record = requests[u].record
              /\ requests[k].data.dateTime = requests[u].data.dateTime


\* no two records of the ledger stand for the same missed row
NoTwinRecords ==
    \A i, j \in 1..Len(allRecords) :
        (/\ allRecords[i].contact = allRecords[j].contact
         /\ allRecords[i].timestamp = allRecords[j].timestamp) => i = j

\* no two requests of one kind and one session were made of the same record
\* and, for updates, of the same answer
NoTwinRequests ==
    \A i, j \in 1..Len(requests) :
        (/\ requests[i].kind = requests[j].kind
         /\ requests[i].session = requests[j].session
         /\ requests[i].record = requests[j].record
         /\ requests[i].data.answerTime = requests[j].data.answerTime) => i = j

\* the check and the insertion of a call are one step: a row already recorded
\* gives no record and no create, an answerKey already processed no pass
ChecksThenInserts ==
    /\ \A m \in StepMissed :
          RecordExists(Collector, m.contact, m.timestamp)
             => allRecords' = allRecords /\ requests' = requests
    /\ \A a \in StepAnswers :
          AnswerKey(a[1], a[2]) \in Range(processedAnswers)
             => requests' = requests /\ processedAnswers' = processedAnswers

\* C29: however the calls of checkForNewCalls made by the observer, the
\* top-record timer and the fallback poll interleave at their awaits, no
\* missed row gets two records or two create requests and no answerKey gets
\* two reconciliation passes: each check and its insertion happen in one step.
C29_AtomicDedup ==
    /\ [](NoTwinRecords /\ NoTwinRequests)
    /\ [][ChecksThenInserts]_vars

\* a call suspended at the await of sendToGoogleSheets has not resumed yet and
\* a timer's check of the same row, made since, recorded nothing more
C29_Witness ==
    /\ Len(awaiting) = 2
    /\ awaiting[1].stage = "sent"
    /\ awaiting[2] = [stage |-> "returned", timer |-> TRUE]
    /\ topRow # NoRow
    /\ isMissedCallText(topRow.text)
    /\ Len(allRecords) = 1
    /\ allRecords[1].timestamp = parseDateTime(topRow.timestamp, now)
    /\ storage = NoStorage


\* C30: an exception raised while checkForNewCalls processes an observation
\* is caught inside it, monitoring stays on (isRealTimeMode, the observer and
\* both timers), and the observation has produced no event and left no
\* partial effect: no window entry, no record, no request.
C30_CaughtNoEffect ==
    [][caught' # "" =>
          /\ isRealTimeMode' /\ realTimeObserver'
          /\ topRecordCheckInterval' /\ realTimeInterval'
          /\ recentCalls' = recentCalls
          /\ allRecords' = allRecords
          /\ requests' = requests]_vars


\* C31: in the v2.1 collector, from the return of stopRealTimeMode to the next
\* startRealTimeMode every periodic trigger is cancelled: no step invokes
\* checkForNewMissedCalls and allRecords does not change.
C31_StoppedIsQuietV21 ==
    [][(~isRealTimeMode /\ ~isRealTimeMode')
          => domQueries' = domQueries /\ allRecords' = allRecords]_vars


\* C32: in a monitoring session every record gets at most one update request
\* in total, also when a second answered call of the same phone is seen in
\* another minute within the hour after the record.
C32_OneUpdatePerRecord ==
    \A i, j \in RequestsOfKind("update") :
        (requests[i].session = requests[j].session
            /\ requests[i].record = requests[j].record) => i = j


\* an Answered card of the phone, timed within the hour of the minute and less
\* than 2 hours old, was read by checkForNewCalls in this session: its answer
\* key is in processedAnswers
AnswerSeenNear(phoneNumber, timestamp) ==
    \E k \in Range(processedAnswers) :
        /\ k[1] = phoneNumber
        /\ Apart(AnswerKeyTime(k), timestamp) < OneHour
        /\ AnswerKeyTime(k) > now - TwoHours

\* C33: when an Answered row of a phone was observed in the session and a new
\* Missed row of that phone less than 1 hour away from it is observed while
\* both are less than 2 hours old, the create request of the missed call
\* carries actualMissedCall "No", however many times rows of that phone were
\* recorded in between.
C33_AnsweredStillKnown ==
    [][\A m \in StepMissed :
          (/\ ~Stored(m.contact, m.timestamp)
           /\ m.timestamp > now - TwoHours
           /\ AnswerSeenNear(m.phoneNumber, m.timestamp))
          => \A i \in 1..Len(NewRequests) :
                NewRequests[i].kind = "create"
                   => NewRequests[i].data.actualMissedCall = "No"]_vars


\* C34: while isRealTimeMode is set no step of a bulk collection changes the
\* records: a pass or the end of an autoScrollAndCollect loop leaves allRecords
\* (content and order) and processedIndexes as they were
C34_NoBulkWhileMonitoring ==
    [][(isRealTimeMode /\ BulkStep)
          => (allRecords' = allRecords /\ processedIndexes' = processedIndexes)]_vars


\* the loops that make another pass when their delay ends: every live loop
\* tests the one flag isCollecting in its `while`, whichever click started it
LoopsCollecting == IF isCollecting THEN collectLoops ELSE 0

\* C35: at most one autoScrollAndCollect loop keeps collecting at any time: a
\* loop that was stopped by the user ends when it wakes, also when a new
\* collection was started before it woke.
C35_OneLoopCollects == LoopsCollecting <= 1


\* C36: a running autoScrollAndCollect loop ends without a click of the user
\* once the list has stopped growing and cannot be scrolled further, whatever
\* the timestamps of the rendered cards.
C36_LoopTerminates == (collectLoops > 0) ~> (collectLoops = 0)


\* the cards a step of checkForNewCalls read that are timed at or before the
\* start of the monitoring session
StepEarlyRows ==
    { r \in CheckedRows :
        /\ isRealTimeMode
        /\ parseDateTime(r.timestamp, now) # NoDate
        /\ parseDateTime(r.timestamp, now) <= monitorStartTime }

\* C37: during a real-time session every CallRecord in allRecords and every
\* create or update request of the session is of a call timed strictly after
\* monitorStartTime, and a card timed at or before it changes neither the
\* records, the windows, the sent ledger nor the processed answers.
C37_AfterMonitorStart ==
    /\ [](isRealTimeMode =>
            /\ \A i \in 1..Len(allRecords) : allRecords[i].timestamp > monitorStartTime
            /\ \A j \in 1..Len(requests) :
                  requests[j].session = session
                     => requests[j].record.timestamp > monitorStartTime)
    /\ [][StepEarlyRows # {}
             => UNCHANGED <<allRecords, recentCalls, sentRecords, processedAnswers>>]_vars


\* the create requests enqueued since the last startRealTimeMode
SessionCreates == {j \in RequestsOfKind("create") : requests[j].session = session}

C39_RoundTrip == sheetDate.stage = "parsed" => sheetDate.parsed = sheetDate.date

\* a Date of the hour after noon has gone through both, as "12:mm PM"
C39_Witness ==
    /\ sheetDate.stage = "parsed"
    /\ (sheetDate.date % MinutesPerDay) \div 60 = 12
    /\ sheetDate.text.hh = 12
    /\ sheetDate.text.ampm = "PM"

=============================================================================
